---- MODULE Spec2Model ----
(***************************************************************************)
(* A model of the NotePlan plugins' project cache (jgclark.Reviews,        *)
(* reviewListHelpers.js) and perspective store (jgclark.Dashboard,         *)
(* perspectiveHelpers.js).                                                 *)
(*                                                                         *)
(* Every async function is cut at its awaits: one action runs the code     *)
(* between two suspension points.  A task is one logical call chain.       *)
(* "Spec" runs the cache operations one at a time (each caller awaits the  *)
(* operation it started); "SpecCacheRace" lets a second call start while   *)
(* the first is suspended at an await.                                     *)
(***************************************************************************)
EXTENDS Integers, Sequences, FiniteSets, TLC

VARIABLES
  \* ---- the note corpus (DataStore.projectNotes) and the clock
  noteExists,   \* filename -> BOOLEAN
  noteVer,      \* filename -> version of the note's content
  now,          \* Date.now(), in ms
  \* ---- the persisted project cache
  fileExists,   \* DataStore.fileExists(allProjectsListFilename)
  fileRecs,     \* the parsed content of allProjectsList.json
  genPref,      \* DataStore.preference(generatedDatePrefName), 0 when unset
  genFailed,    \* history: the last regeneration could not persist, and nothing was written since
  \* ---- the calls in flight on the project cache
  pc,           \* task -> position in its call
  loc,          \* task -> the locals of its call
  \* ---- the persisted plugin settings (DataStore.settings) and the window's copy
  settingsPersp,  \* DataStore.settings.perspectiveSettings: the array of TPerspectiveDef, <<>> when unset
  settingsDash,   \* DataStore.settings.dashboardSettings: the live dashboard settings
  pluginData,     \* what setPluginData last sent to the React window
  \* ---- the calls in flight on the perspective store
  ppc,          \* task -> position in its call
  ploc,         \* task -> the locals of its call
  cmds,         \* the number of perspective commands and setting changes so far
  \* ---- one call of a function that only computes
  fnArgs,       \* the arguments of the call
  fnResult      \* [done, value]: whether it has returned, and what

perspVars == <<settingsPersp, settingsDash, pluginData, ppc, ploc, cmds>>
cacheVars == <<noteExists, noteVer, now, fileExists, fileRecs, genPref, genFailed, pc, loc>>
otherVars == <<fnArgs, fnResult>>
vars == <<noteExists, noteVer, now, fileExists, fileRecs, genPref, genFailed, pc, loc,
          settingsPersp, settingsDash, pluginData, ppc, ploc, cmds,
          fnArgs, fnResult>>

-----------------------------------------------------------------------------
(* Bounds of the model *)

MaxVer == 1
MaxTicks == 2
MaxCommands == 4

(* Program constants *)

maxAgeAllProjectsListInHours == 1
MsPerHour == 1000 * 60 * 60
TickMs == 60 * 60 * 1000
\* Date.now() is far more than one hour after the epoch
StartNow == 2 * MsPerHour

Tasks == {1, 2}
Filenames == <<"a.md", "b.md">>
FilenameSet == {Filenames[i] : i \in DOMAIN Filenames}
\* config.noteTypeTags, in the order of the setting
noteTypeTags == <<"#project", "#area">>
\* the hashtags of each note: a.md carries both tags of interest
NoteTags == [f \in FilenameSet |-> IF f = "a.md" THEN {"#project", "#area"} ELSE {"#project"}]
\* the folder of each note, and the sorted list of allowed folders
NoteFolder == [f \in FilenameSet |-> IF f = "a.md" THEN "Home" ELSE "Work"]
filteredFolderList == <<"Home", "Work">>

-----------------------------------------------------------------------------
(* Sequence helpers *)

RECURSIVE FlattenSeq(_)
FlattenSeq(ss) == IF ss = <<>> THEN <<>> ELSE Head(ss) \o FlattenSeq(Tail(ss))

MapSeq(s, Op(_)) == [i \in DOMAIN s |-> Op(s[i])]

\* allProjects.find((project) => project.filename === filename): the index
\* of the first record with that filename, 0 when there is none
FindByFilename(s, filename) ==
  IF \E i \in DOMAIN s : s[i].filename = filename
  THEN CHOOSE i \in DOMAIN s :
         s[i].filename = filename /\ \A j \in 1..(i - 1) : s[j].filename # filename
  ELSE 0

-----------------------------------------------------------------------------
(* Project records.  "note" tells an in-memory Project instance, which    *)
(* holds its note object, from a record read back from the JSON file.     *)

Project(f, tag, v) == [filename |-> f, noteType |-> tag, ver |-> v, note |-> TRUE]

\* stringifyProjectObjects: the replacer drops the .note property
stringifyProjectObjects(objArray) ==
  MapSeq(objArray, LAMBDA p : [p EXCEPT !.note = FALSE])

\* getAllMatchingProjects: one Project per (folder, tag, note in that folder
\* carrying the tag), folders outermost
NotesMatching(tag, folder) ==
  SelectSeq(Filenames, LAMBDA f : noteExists[f] /\ NoteFolder[f] = folder /\ tag \in NoteTags[f])

getAllMatchingProjects ==
  FlattenSeq(MapSeq(filteredFolderList, LAMBDA folder :
    FlattenSeq(MapSeq(noteTypeTags, LAMBDA tag :
      MapSeq(NotesMatching(tag, folder), LAMBDA f : Project(f, tag, noteVer[f]))))))

-----------------------------------------------------------------------------
(* The locals of one call on the project cache *)

InitLoc ==
  [op |-> "none", filename |-> "", simplyDelete |-> FALSE,
   allProjects |-> <<>>, projectInstances |-> <<>>, fromList |-> <<>>,
   \* fromList: what getAllProjectsFromList returned to updateProjectsListAfterChange
   noteType |-> "", haveNote |-> FALSE, ret |-> "done", regens |-> 0,
   startAge |-> 0, startExists |-> FALSE,
   afterFailedGen |-> FALSE, saved |-> "none"]

\* getAllProjectsFromList: fileAge > (1000 * 60 * 60 * maxAgeAllProjectsListInHours)
IsStaleOnOrAfter(fileAge) == fileAge >= 1000 * 60 * 60 * maxAgeAllProjectsListInHours
IsStale(fileAge) == fileAge > 1000 * 60 * 60 * maxAgeAllProjectsListInHours

\* getAllProjectsFromList up to its first suspension: either the file is read
\* (and parsed) at once, or generateAllProjectsList() is called without a
\* config, which suspends in getReviewSettings() before the corpus is scanned
GetAllEnter(l) ==
  LET l1 == [l EXCEPT !.startAge = now - genPref, !.startExists = fileExists,
                      !.afterFailedGen = genFailed, !.regens = 0]
  IN IF fileExists /\ ~IsStale(now - genPref)
     THEN [next |-> "ga_ret", l |-> [l1 EXCEPT !.projectInstances = fileRecs]]
     ELSE [next |-> "gen_scan", l |-> [l1 EXCEPT !.ret = "ga_ret", !.regens = 1]]

\* writeAllProjectsList: res is what DataStore.saveData answers
writeAllProjectsList(projectInstances, res, fromGenerate) ==
  IF res
  THEN /\ fileRecs' = stringifyProjectObjects(projectInstances)
       /\ fileExists' = TRUE
       /\ genPref' = now
       /\ genFailed' = FALSE
  ELSE /\ UNCHANGED <<fileRecs, fileExists, genPref>>
       /\ genFailed' = (fromGenerate \/ genFailed)

SaveResult(res) == IF res THEN "ok" ELSE "fail"

-----------------------------------------------------------------------------
(* The operations on the project cache *)

\* a caller starts getAllProjectsFromList()
StartGetAll(t) ==
  /\ pc[t] = "idle"
  /\ LET e == GetAllEnter([InitLoc EXCEPT !.op = "getAll"])
     IN /\ pc' = [pc EXCEPT ![t] = e.next]
        /\ loc' = [loc EXCEPT ![t] = e.l]
  /\ UNCHANGED <<noteExists, noteVer, now, fileExists, fileRecs, genPref, genFailed>>
  /\ UNCHANGED perspVars
  /\ UNCHANGED otherVars

\* the project-review builder of the dashboard starts: getProjectSectionData
\* calls getNextProjectsToReview, which calls filterAndSortProjectsList, which
\* calls getAllProjectsFromList()
StartProjectSection(t) ==
  /\ pc[t] = "idle"
  /\ LET e == GetAllEnter([InitLoc EXCEPT !.op = "projectSection"])
     IN /\ pc' = [pc EXCEPT ![t] = e.next]
        /\ loc' = [loc EXCEPT ![t] = e.l]
  /\ UNCHANGED <<noteExists, noteVer, now, fileExists, fileRecs, genPref, genFailed>>
  /\ UNCHANGED perspVars
  /\ UNCHANGED otherVars

\* generateAllProjectsList: getAllMatchingProjects scans the corpus
GenScan(t) ==
  /\ pc[t] = "gen_scan"
  /\ pc' = [pc EXCEPT ![t] = "gen_write"]
  /\ loc' = [loc EXCEPT ![t].projectInstances = getAllMatchingProjects]
  /\ UNCHANGED <<noteExists, noteVer, now, fileExists, fileRecs, genPref, genFailed>>
  /\ UNCHANGED perspVars
  /\ UNCHANGED otherVars

\* generateAllProjectsList after the scan: writeAllProjectsList, then
\* return projectInstances to whoever called
GenWrite(t) ==
  /\ pc[t] = "gen_write"
  /\ \E res \in BOOLEAN :
       /\ writeAllProjectsList(loc[t].projectInstances, res, TRUE)
       /\ loc' = [loc EXCEPT ![t].saved = SaveResult(res)]
  /\ pc' = [pc EXCEPT ![t] = loc[t].ret]
  /\ UNCHANGED <<noteExists, noteVer, now>>
  /\ UNCHANGED perspVars
  /\ UNCHANGED otherVars

\* a caller starts generateAllProjectsList(config): with a config passed the
\* scan runs before the first suspension
StartRegenerateAll(t) ==
  /\ pc[t] = "idle"
  /\ pc' = [pc EXCEPT ![t] = "gen_write"]
  /\ loc' = [loc EXCEPT ![t] = [InitLoc EXCEPT !.op = "regenerateAll", !.regens = 1,
                                  !.projectInstances = getAllMatchingProjects,
                                  !.startAge = now - genPref,
                                  !.startExists = fileExists]]
  /\ UNCHANGED <<noteExists, noteVer, now, fileExists, fileRecs, genPref, genFailed>>
  /\ UNCHANGED perspVars
  /\ UNCHANGED otherVars

\* a caller starts updateProjectsListAfterChange(reviewedFilename, simplyDelete, config)
StartUpdateOne(t, reviewedFilename, simplyDelete) ==
  /\ pc[t] = "idle"
  /\ LET l0 == [InitLoc EXCEPT !.op = "updateOne", !.filename = reviewedFilename,
                               !.simplyDelete = simplyDelete]
         e == GetAllEnter(l0)
     IN IF reviewedFilename = ""
        THEN \* throw new Error('Empty filename passed'), caught and logged
             /\ pc' = [pc EXCEPT ![t] = "done"]
             /\ loc' = [loc EXCEPT ![t] = l0]
        ELSE /\ pc' = [pc EXCEPT ![t] = e.next]
             /\ loc' = [loc EXCEPT ![t] = e.l]
  /\ UNCHANGED <<noteExists, noteVer, now, fileExists, fileRecs, genPref, genFailed>>
  /\ UNCHANGED perspVars
  /\ UNCHANGED otherVars

\* getAllProjectsFromList has returned: the caller's continuation.
\* For updateProjectsListAfterChange this is everything from the find to the
\* await of DataStore.noteByFilename.
GetAllReturn(t) ==
  /\ pc[t] = "ga_ret"
  /\ LET l == loc[t]
         allProjects == l.projectInstances
         i == FindByFilename(allProjects, l.filename)
         without == SelectSeq(allProjects, LAMBDA project : project.filename # l.filename)
     IN CASE l.op \in {"getAll", "projectSection"} ->
               \* the caller only reads the list
               /\ pc' = [pc EXCEPT ![t] = "done"]
               /\ UNCHANGED <<loc, fileExists, fileRecs, genPref, genFailed>>
          [] l.op = "updateOne" /\ i = 0 ->
               \* not found: await generateAllProjectsList(config, false)
               /\ pc' = [pc EXCEPT ![t] = "gen_write"]
               /\ loc' = [loc EXCEPT ![t].allProjects = allProjects,
                                     ![t].fromList = allProjects,
                                     ![t].projectInstances = getAllMatchingProjects,
                                     ![t].regens = l.regens + 1,
                                     ![t].ret = "done"]
               /\ UNCHANGED <<fileExists, fileRecs, genPref, genFailed>>
          [] l.op = "updateOne" /\ i # 0 /\ l.simplyDelete ->
               /\ \E res \in BOOLEAN :
                    /\ writeAllProjectsList(without, res, FALSE)
                    /\ loc' = [loc EXCEPT ![t].allProjects = without,
                                          ![t].fromList = allProjects,
                                          ![t].noteType = allProjects[i].noteType,
                                          ![t].saved = SaveResult(res)]
               /\ pc' = [pc EXCEPT ![t] = "done"]
          [] l.op = "updateOne" /\ i # 0 /\ ~l.simplyDelete ->
               /\ pc' = [pc EXCEPT ![t] = "u_note"]
               /\ loc' = [loc EXCEPT ![t].allProjects = without,
                                     ![t].fromList = allProjects,
                                     ![t].noteType = allProjects[i].noteType,
                                     ![t].haveNote = noteExists[l.filename]]
               /\ UNCHANGED <<fileExists, fileRecs, genPref, genFailed>>
  /\ UNCHANGED <<noteExists, noteVer, now>>
  /\ UNCHANGED perspVars
  /\ UNCHANGED otherVars

\* updateProjectsListAfterChange after DataStore.noteByFilename: build the
\* updated Project from the note, push it, write the list
UpdateNote(t) ==
  /\ pc[t] = "u_note"
  /\ LET l == loc[t]
         updatedProject == Project(l.filename, l.noteType, noteVer[l.filename])
         allProjects == Append(l.allProjects, updatedProject)
     IN IF ~l.haveNote
        THEN /\ UNCHANGED <<loc, fileExists, fileRecs, genPref, genFailed>>
        ELSE \E res \in BOOLEAN :
               /\ writeAllProjectsList(allProjects, res, FALSE)
               /\ loc' = [loc EXCEPT ![t].allProjects = allProjects,
                                     ![t].saved = SaveResult(res)]
  /\ pc' = [pc EXCEPT ![t] = "done"]
  /\ UNCHANGED <<noteExists, noteVer, now>>
  /\ UNCHANGED perspVars
  /\ UNCHANGED otherVars

\* the caller takes the result; the task is free again
Finish(t) ==
  /\ pc[t] = "done"
  /\ pc' = [pc EXCEPT ![t] = "idle"]
  /\ loc' = [loc EXCEPT ![t] = InitLoc]
  /\ UNCHANGED <<noteExists, noteVer, now, fileExists, fileRecs, genPref, genFailed>>
  /\ UNCHANGED perspVars
  /\ UNCHANGED otherVars

-----------------------------------------------------------------------------
(* The environment of the project cache: time passes, the user edits,     *)
(* deletes and creates notes                                              *)

Tick ==
  /\ now < StartNow + MaxTicks * TickMs
  /\ now' = now + TickMs
  /\ UNCHANGED <<noteExists, noteVer, fileExists, fileRecs, genPref, genFailed, pc, loc>>
  /\ UNCHANGED perspVars
  /\ UNCHANGED otherVars

EditNote(f) ==
  /\ noteExists[f]
  /\ noteVer[f] < MaxVer
  /\ noteVer' = [noteVer EXCEPT ![f] = noteVer[f] + 1]
  /\ UNCHANGED <<noteExists, now, fileExists, fileRecs, genPref, genFailed, pc, loc>>
  /\ UNCHANGED perspVars
  /\ UNCHANGED otherVars

\* an hour passes in which the user edits every note, while no call is under
\* way (a call takes far less than an hour): the version of a note counts the
\* hours, so that a record tells the hour in which it was derived
HourOfEdits ==
  /\ \A t \in Tasks : pc[t] = "idle"
  /\ now < StartNow + MaxTicks * TickMs
  /\ now' = now + TickMs
  /\ noteVer' = [f \in FilenameSet |-> noteVer[f] + 1]
  /\ UNCHANGED <<noteExists, fileExists, fileRecs, genPref, genFailed, pc, loc>>
  /\ UNCHANGED perspVars
  /\ UNCHANGED otherVars

\* the user moves a note to the trash, or brings it back
ToggleNote(f) ==
  /\ noteExists' = [noteExists EXCEPT ![f] = ~noteExists[f]]
  /\ UNCHANGED <<noteVer, now, fileExists, fileRecs, genPref, genFailed, pc, loc>>
  /\ UNCHANGED perspVars
  /\ UNCHANGED otherVars

-----------------------------------------------------------------------------
(* The perspective store (perspectiveHelpers.js).                          *)
(* A name is a sequence of pieces, so that a trailing "*" can be tested,   *)
(* appended and sliced off.  A settings object is a function from keys.    *)

Dash == <<"-">>
NameHome == <<"Home">>
NameWork == <<"Work">>
NameTest == <<"Test">>

endsWithStar(input) == Len(input) > 0 /\ input[Len(input)] = "*"

\* { ...a, ...b }
Merge(a, b) ==
  [k \in (DOMAIN a) \cup (DOMAIN b) |-> IF k \in DOMAIN b THEN b[k] ELSE a[k]]

EmptySettings == [k \in {} |-> ""]

perspectiveSettingDefaults ==
  << [name |-> Dash, isModified |-> FALSE, dashboardSettings |-> EmptySettings],
     [name |-> NameHome, isModified |-> FALSE,
      dashboardSettings |-> [includedFolders |-> "Home, NotePlan",
                             excludedFolders |-> "Readwise, Saved Searches, Work",
                             ignoreItemsWithTerms |-> "#test, @church"]],
     [name |-> NameWork, isModified |-> FALSE,
      dashboardSettings |-> [includedFolders |-> "Work, CCC, Ministry",
                             excludedFolders |-> "Readwise, Saved Searches, Home",
                             ignoreItemsWithTerms |-> "#test, @home"]] >>

\* the pieces of a settings key, for the patterns below
KeyParts(key) ==
  CASE key = "FFlag_DebugPanel" -> <<"FFlag_", "DebugPanel">>
    [] OTHER -> <<key>>

\* a string pattern becomes new RegExp(`^${pattern}`); a regex is used as it is
patternsToRemove ==
  << [anchored |-> TRUE, text |-> "lastChange"],
     [anchored |-> TRUE, text |-> "activePerspectiveName"],
     [anchored |-> TRUE, text |-> "timeblockMustContainString"],
     [anchored |-> TRUE, text |-> "updateTagMentionsOnTrigger"],
     [anchored |-> TRUE, text |-> "defaultFileExtension"],
     [anchored |-> TRUE, text |-> "doneDatesAvailable"],
     [anchored |-> TRUE, text |-> "migratedSettingsFromOriginalDashboard"],
     [anchored |-> TRUE, text |-> "triggerLogging"],
     [anchored |-> TRUE, text |-> "pluginID"],
     [anchored |-> FALSE, text |-> "FFlag_"],
     [anchored |-> FALSE, text |-> "separator\\d"],
     [anchored |-> FALSE, text |-> "heading\\d"],
     [anchored |-> FALSE, text |-> "_logLevel"],
     [anchored |-> FALSE, text |-> "_logTimer"],
     [anchored |-> FALSE, text |-> "_logFunctionRE"] >>

PatternTest(pattern, key) ==
  LET parts == KeyParts(key)
  IN IF pattern.anchored
     THEN parts[1] = pattern.text
     ELSE \E i \in DOMAIN parts : parts[i] = pattern.text

shouldRemoveKey(key) ==
  \E i \in DOMAIN patternsToRemove : PatternTest(patternsToRemove[i], key)

cleanNothing(settingsIn) == settingsIn

cleanDashboardSettings(settingsIn) ==
  [key \in {k \in DOMAIN settingsIn : ~shouldRemoveKey(k)} |-> settingsIn[key]]

\* the dashboard settings of a new installation
InitialDashboardSettings ==
  [k \in {"activePerspectiveName", "lastChange", "FFlag_DebugPanel", "_logLevel",
          "includedFolders", "excludedFolders"} |->
     CASE k = "activePerspectiveName" -> Dash
       [] k = "FFlag_DebugPanel" -> "false"
       [] k = "_logLevel" -> "INFO"
       [] OTHER -> ""]

\* getDashboardSettings(): the parsed DataStore.settings.dashboardSettings
getDashboardSettings == settingsDash

\* getPerspectiveSettings(): the stored array, or the defaults when nothing
\* (or '[]') is stored, which it also persists (saveAllPerspectiveDefs)
getPerspectiveSettings ==
  IF settingsPersp = <<>> THEN perspectiveSettingDefaults ELSE settingsPersp

\* getPerspectiveNamed: the index of the first definition of that name, 0 for null
getPerspectiveNamed(name, perspectiveSettings) ==
  IF \E i \in DOMAIN perspectiveSettings : perspectiveSettings[i].name = name
  THEN CHOOSE i \in DOMAIN perspectiveSettings :
         /\ perspectiveSettings[i].name = name
         /\ \A j \in 1..(i - 1) : perspectiveSettings[j].name # name
  ELSE 0

DisplayName(def) == IF def.isModified THEN Append(def.name, "*") ELSE def.name

\* getDisplayListOfPerspectiveNames(allDefs, false), as the set of options
DisplayNamesWithoutDefault(allDefs) ==
  {DisplayName(allDefs[i]) : i \in DOMAIN allDefs} \ {Dash}

\* getDisplayListOfPerspectiveNames(allDefs, includeDefaultOption): the
\* display names, sorted by a comparator that only moves an option equal to
\* "-" to the front (the sort is stable), then without "-" if so asked;
\* ['-'] when there are no definitions
DisplayListUnsorted(allDefs) == [i \in DOMAIN allDefs |-> DisplayName(allDefs[i])]

DisplayListSorted(allDefs) ==
  SelectSeq(DisplayListUnsorted(allDefs), LAMBDA a : a = Dash)
    \o SelectSeq(DisplayListUnsorted(allDefs), LAMBDA a : a # Dash)

getDisplayListOfPerspectiveNames(allDefs, includeDefaultOption) ==
  IF Len(allDefs) = 0
  THEN <<Dash>>
  ELSE IF includeDefaultOption
       THEN DisplayListSorted(allDefs)
       ELSE SelectSeq(DisplayListSorted(allDefs), LAMBDA name : name # Dash)

\* the locals of one call on the perspective store
InitPLoc ==
  [op |-> "none", nameIn |-> <<>>, name |-> <<>>, nameToUse |-> <<>>,
   allDefs |-> <<>>, dashboardSettings |-> EmptySettings, dSettings |-> EmptySettings,
   thisName |-> <<>>, queue |-> <<>>, ret |-> "done", swRet |-> "done",
   outcome |-> "none",
   \* history: the collection and the live settings when the operation began
   startDefs |-> <<>>, startDash |-> EmptySettings]

\* a command, or a change of a setting, begins: the model follows at most
\* MaxCommands of them
CountCommand == cmds < MaxCommands /\ cmds' = cmds + 1

(* ---- addNewPerspective ---- *)

\* the early returns of addNewPerspective on the name the user typed
AddRejectsNoDuplicateCheck(name, allDefs) ==
  \/ name = Dash
  \/ (Len(name) > 0 /\ name[Len(name)] = "*")

AddRejects(name, allDefs) ==
  \/ name = Dash
  \/ (Len(name) > 0 /\ name[Len(name)] = "*")
  \/ getPerspectiveNamed(name, allDefs) # 0

\* allDefs = await getPerspectiveSettings(); then the prompt for a name opens
StartAdd(t) ==
  /\ ppc[t] = "idle"
  /\ CountCommand
  /\ settingsPersp' = getPerspectiveSettings
  /\ ploc' = [ploc EXCEPT ![t] = [InitPLoc EXCEPT !.op = "add",
                                    !.allDefs = getPerspectiveSettings,
                                    !.startDefs = getPerspectiveSettings,
                                    !.startDash = settingsDash]]
  /\ ppc' = [ppc EXCEPT ![t] = "add_input"]
  /\ UNCHANGED <<settingsDash, pluginData>>
  /\ UNCHANGED cacheVars
  /\ UNCHANGED otherVars

\* getInputTrimmed returned false: the user cancelled
AddCancel(t) ==
  /\ ppc[t] = "add_input"
  /\ ploc' = [ploc EXCEPT ![t].outcome = "cancelled"]
  /\ ppc' = [ppc EXCEPT ![t] = "done"]
  /\ UNCHANGED <<settingsPersp, settingsDash, pluginData>>
  /\ UNCHANGED cmds
  /\ UNCHANGED cacheVars
  /\ UNCHANGED otherVars

\* getInputTrimmed returned a string: the checks, then the read of the live settings
AddInput(t, name) ==
  /\ ppc[t] = "add_input"
  /\ IF AddRejects(name, ploc[t].allDefs)
     THEN /\ ploc' = [ploc EXCEPT ![t].name = name, ![t].outcome = "rejected"]
          /\ ppc' = [ppc EXCEPT ![t] = "done"]
     ELSE /\ ploc' = [ploc EXCEPT ![t].name = name,
                                  ![t].dashboardSettings = getDashboardSettings]
          /\ ppc' = [ppc EXCEPT ![t] = "add_write"]
  /\ UNCHANGED <<settingsPersp, settingsDash, pluginData>>
  /\ UNCHANGED cmds
  /\ UNCHANGED cacheVars
  /\ UNCHANGED otherVars

\* the new definition, the one write of DataStore.settings, setPluginData
AddWrite(t) ==
  /\ ppc[t] = "add_write"
  /\ LET l == ploc[t]
         currentDashboardSettings == l.dashboardSettings
         newDef == [name |-> l.name, isModified |-> FALSE,
                    dashboardSettings |-> cleanDashboardSettings(currentDashboardSettings)]
         updatedPerspectives == Append(l.allDefs, newDef)
         updatedDashboardSettings ==
           Merge(currentDashboardSettings, [activePerspectiveName |-> l.name])
     IN /\ settingsDash' = updatedDashboardSettings
        /\ settingsPersp' = updatedPerspectives
        /\ pluginData' = [dashboardSettings |-> [wrapped |-> FALSE,
                                                  settings |-> updatedDashboardSettings],
                          perspectiveSettings |-> updatedPerspectives]
        /\ ploc' = [ploc EXCEPT ![t].outcome = "added"]
        /\ ppc' = [ppc EXCEPT ![t] = "done"]
  /\ UNCHANGED cmds
  /\ UNCHANGED cacheVars
  /\ UNCHANGED otherVars

(* ---- switchToPerspective ---- *)

\* the lookup of the definition (with the default as fallback), then the
\* read of the live settings
SwRead(t) ==
  /\ ppc[t] = "sw_read"
  /\ LET l == ploc[t]
         i == getPerspectiveNamed(l.name, l.allDefs)
         j == IF i # 0 THEN i ELSE getPerspectiveNamed(Dash, l.allDefs)
     IN IF j = 0
        THEN /\ ploc' = [ploc EXCEPT ![t].outcome = "notfound"]
             /\ ppc' = [ppc EXCEPT ![t] = l.swRet]
        ELSE /\ ploc' = [ploc EXCEPT ![t].thisName = l.allDefs[j].name,
                                     ![t].dSettings = getDashboardSettings]
             /\ ppc' = [ppc EXCEPT ![t] = "sw_write"]
  /\ UNCHANGED <<settingsPersp, settingsDash, pluginData>>
  /\ UNCHANGED cmds
  /\ UNCHANGED cacheVars
  /\ UNCHANGED otherVars

\* dSettings.activePerspectiveName = thisDef.name, the write of
\* DataStore.settings, and setPluginData with the whole plugin settings object
SwWrite(t) ==
  /\ ppc[t] = "sw_write"
  /\ LET l == ploc[t]
         dSettings == Merge(l.dSettings, [activePerspectiveName |-> l.thisName])
     IN /\ settingsDash' = dSettings
        /\ pluginData' = [pluginData EXCEPT !.dashboardSettings =
                            [wrapped |-> TRUE, settings |-> dSettings]]
        /\ ploc' = [ploc EXCEPT ![t].outcome = "switched"]
        /\ ppc' = [ppc EXCEPT ![t] = l.swRet]
  /\ UNCHANGED settingsPersp
  /\ UNCHANGED cmds
  /\ UNCHANGED cacheVars
  /\ UNCHANGED otherVars

\* a caller switches to a perspective, with the definitions it has just read
StartSwitchTo(t, name) ==
  /\ ppc[t] = "idle"
  /\ CountCommand
  /\ settingsPersp' = getPerspectiveSettings
  /\ ploc' = [ploc EXCEPT ![t] = [InitPLoc EXCEPT !.op = "switchTo", !.name = name,
                                    !.allDefs = getPerspectiveSettings,
                                    !.startDefs = getPerspectiveSettings,
                                    !.startDash = settingsDash]]
  /\ ppc' = [ppc EXCEPT ![t] = "sw_read"]
  /\ UNCHANGED <<settingsDash, pluginData>>
  /\ UNCHANGED cacheVars
  /\ UNCHANGED otherVars

(* ---- deletePerspective ---- *)

\* the default perspective is never deleted
DeleteRefusesNothing(nameIn) == FALSE

DeleteRefuses(nameIn) == nameIn = Dash

\* the entry of deletePerspective(nameIn): the read of the live settings
DeleteEnter(l, nameIn, ret) ==
  [l EXCEPT !.nameIn = nameIn, !.nameToUse = <<>>, !.ret = ret,
            !.dashboardSettings = getDashboardSettings]

\* from "if this is the active perspective" to the end, once nameToUse is
\* known: either the call suspends in switchToPerspective('-', existingDefs),
\* or it filters the definitions it read and persists them at once.
\* persisted: the stored definitions as this step found (or seeded) them
DeleteFrom(t, l, persisted) ==
  IF l.nameToUse = l.dashboardSettings["activePerspectiveName"]
  THEN /\ settingsPersp' = persisted
       /\ ploc' = [ploc EXCEPT ![t] = [l EXCEPT !.name = Dash, !.swRet = "del_filter"]]
       /\ ppc' = [ppc EXCEPT ![t] = "sw_read"]
  ELSE /\ settingsPersp' = SelectSeq(l.allDefs, LAMBDA obj : obj.name # l.nameToUse)
       /\ ploc' = [ploc EXCEPT ![t] = [l EXCEPT !.outcome = "deleted"]]
       /\ ppc' = [ppc EXCEPT ![t] = l.ret]

StartDelete(t, nameIn) ==
  /\ ppc[t] = "idle"
  /\ CountCommand
  /\ ploc' = [ploc EXCEPT ![t] =
                DeleteEnter([InitPLoc EXCEPT !.op = "delete",
                                             !.startDefs = getPerspectiveSettings,
                                             !.startDash = settingsDash],
                            nameIn, "done")]
  /\ ppc' = [ppc EXCEPT ![t] = "del_defs"]
  /\ UNCHANGED <<settingsPersp, settingsDash, pluginData>>
  /\ UNCHANGED cacheVars
  /\ UNCHANGED otherVars

\* existingDefs = await getPerspectiveSettings() and what follows it
DeleteDefs(t) ==
  /\ ppc[t] = "del_defs"
  /\ LET existingDefs == getPerspectiveSettings
         l == [ploc[t] EXCEPT !.allDefs = existingDefs]
     IN IF Len(existingDefs) = 0
        THEN /\ settingsPersp' = existingDefs
             /\ ploc' = [ploc EXCEPT ![t] = [l EXCEPT !.outcome = "error"]]
             /\ ppc' = [ppc EXCEPT ![t] = l.ret]
        ELSE IF DeleteRefuses(l.nameIn)
        THEN /\ settingsPersp' = existingDefs
             /\ ploc' = [ploc EXCEPT ![t] = [l EXCEPT !.outcome = "refused"]]
             /\ ppc' = [ppc EXCEPT ![t] = l.ret]
        ELSE IF l.nameIn # <<>> /\ getPerspectiveNamed(l.nameIn, existingDefs) # 0
        THEN DeleteFrom(t, [l EXCEPT !.nameToUse = l.nameIn], existingDefs)
        ELSE /\ settingsPersp' = existingDefs
             /\ ploc' = [ploc EXCEPT ![t] = l]
             /\ ppc' = [ppc EXCEPT ![t] = "del_choose"]
  /\ UNCHANGED <<settingsDash, pluginData>>
  /\ UNCHANGED cmds
  /\ UNCHANGED cacheVars
  /\ UNCHANGED otherVars

\* chooseOption returned nothing (or the empty string)
DeleteChooseCancel(t) ==
  /\ ppc[t] = "del_choose"
  /\ ploc' = [ploc EXCEPT ![t].outcome = "cancelled"]
  /\ ppc' = [ppc EXCEPT ![t] = ploc[t].ret]
  /\ UNCHANGED <<settingsPersp, settingsDash, pluginData>>
  /\ UNCHANGED cmds
  /\ UNCHANGED cacheVars
  /\ UNCHANGED otherVars

\* chooseOption returned one of the display names
DeleteChoose(t, res) ==
  /\ ppc[t] = "del_choose"
  /\ res \in DisplayNamesWithoutDefault(ploc[t].allDefs)
  /\ res # <<>>
  /\ DeleteFrom(t, [ploc[t] EXCEPT !.nameToUse = res], settingsPersp)
  /\ UNCHANGED <<settingsDash, pluginData>>
  /\ UNCHANGED cmds
  /\ UNCHANGED cacheVars
  /\ UNCHANGED otherVars

\* after switchToPerspective('-') returned: filter and persist
DeleteFilter(t) ==
  /\ ppc[t] = "del_filter"
  /\ LET l == ploc[t]
     IN /\ settingsPersp' = SelectSeq(l.allDefs, LAMBDA obj : obj.name # l.nameToUse)
        /\ ploc' = [ploc EXCEPT ![t].outcome = "deleted"]
        /\ ppc' = [ppc EXCEPT ![t] = l.ret]
  /\ UNCHANGED <<settingsDash, pluginData>>
  /\ UNCHANGED cmds
  /\ UNCHANGED cacheVars
  /\ UNCHANGED otherVars

(* ---- deleteAllNamedPerspectiveSettings ---- *)

StartDeleteAll(t) ==
  /\ ppc[t] = "idle"
  /\ CountCommand
  /\ settingsPersp' = getPerspectiveSettings
  /\ ploc' = [ploc EXCEPT ![t] =
       [InitPLoc EXCEPT !.op = "deleteAll",
                        !.startDefs = getPerspectiveSettings,
                        !.startDash = settingsDash,
                        !.queue = [i \in DOMAIN getPerspectiveSettings |->
                                     getPerspectiveSettings[i].name]]]
  /\ ppc' = [ppc EXCEPT ![t] = "da_loop"]
  /\ UNCHANGED <<settingsDash, pluginData>>
  /\ UNCHANGED cacheVars
  /\ UNCHANGED otherVars

\* the for loop up to its next await: the names other than "-" are passed to
\* deletePerspective one by one; after the last, the definitions are read
\* again and switchToPerspective('-', allDefs) is called
DeleteAllLoop(t) ==
  /\ ppc[t] = "da_loop"
  /\ LET l == ploc[t]
         rest == SelectSeq(l.queue, LAMBDA n : n # Dash)
     IN IF rest = <<>>
        THEN /\ settingsPersp' = getPerspectiveSettings
             /\ ploc' = [ploc EXCEPT ![t] = [l EXCEPT !.queue = <<>>,
                                                     !.allDefs = getPerspectiveSettings,
                                                     !.name = Dash, !.swRet = "done"]]
             /\ ppc' = [ppc EXCEPT ![t] = "sw_read"]
        ELSE /\ settingsPersp' = settingsPersp
             /\ ploc' = [ploc EXCEPT ![t] =
                           DeleteEnter([l EXCEPT !.queue = Tail(rest)], Head(rest), "da_loop")]
             /\ ppc' = [ppc EXCEPT ![t] = "del_defs"]
  /\ UNCHANGED <<settingsDash, pluginData>>
  /\ UNCHANGED cmds
  /\ UNCHANGED cacheVars
  /\ UNCHANGED otherVars

(* ---- updateCurrentPerspectiveDef ---- *)

\* ds = await getDashboardSettings(); the star is sliced off the active name
StartSave(t) ==
  /\ ppc[t] = "idle"
  /\ CountCommand
  /\ LET ds == getDashboardSettings
         apn == ds["activePerspectiveName"]
         activePerspectiveName ==
           IF endsWithStar(apn) THEN SubSeq(apn, 1, Len(apn) - 1) ELSE apn
     IN ploc' = [ploc EXCEPT ![t] = [InitPLoc EXCEPT !.op = "save",
                                       !.name = activePerspectiveName,
                                       !.startDefs = getPerspectiveSettings,
                                       !.startDash = settingsDash]]
  /\ ppc' = [ppc EXCEPT ![t] = "save_defs"]
  /\ UNCHANGED <<settingsPersp, settingsDash, pluginData>>
  /\ UNCHANGED cacheVars
  /\ UNCHANGED otherVars

\* allDefs = await getPerspectiveSettings(), findIndex, and the second read
\* of the live settings
SaveDefs(t) ==
  /\ ppc[t] = "save_defs"
  /\ settingsPersp' = getPerspectiveSettings
  /\ LET l == ploc[t]
         allDefs == getPerspectiveSettings
         activeDefIndex == getPerspectiveNamed(l.name, allDefs)
     IN IF activeDefIndex = 0
        THEN /\ ploc' = [ploc EXCEPT ![t].allDefs = allDefs, ![t].outcome = "notfound"]
             /\ ppc' = [ppc EXCEPT ![t] = "done"]
        ELSE /\ ploc' = [ploc EXCEPT ![t].allDefs = allDefs,
                                     ![t].dashboardSettings = getDashboardSettings]
             /\ ppc' = [ppc EXCEPT ![t] = "save_write"]
  /\ UNCHANGED <<settingsDash, pluginData>>
  /\ UNCHANGED cmds
  /\ UNCHANGED cacheVars
  /\ UNCHANGED otherVars

\* the definition takes the live settings as they are and loses its
\* isModified flag; saveAllPerspectiveDefs(allDefs)
SaveWrite(t) ==
  /\ ppc[t] = "save_write"
  /\ LET l == ploc[t]
         activeDefIndex == getPerspectiveNamed(l.name, l.allDefs)
     IN /\ settingsPersp' = [l.allDefs EXCEPT
                               ![activeDefIndex].dashboardSettings = l.dashboardSettings,
                               ![activeDefIndex].isModified = FALSE]
        /\ ploc' = [ploc EXCEPT ![t].outcome = "saved"]
        /\ ppc' = [ppc EXCEPT ![t] = "done"]
  /\ UNCHANGED <<settingsDash, pluginData>>
  /\ UNCHANGED cmds
  /\ UNCHANGED cacheVars
  /\ UNCHANGED otherVars

(* ---- the end of a call, and the user changing a setting ---- *)

PFinish(t) ==
  /\ ppc[t] = "done"
  /\ ppc' = [ppc EXCEPT ![t] = "idle"]
  /\ ploc' = [ploc EXCEPT ![t] = InitPLoc]
  /\ UNCHANGED <<settingsPersp, settingsDash, pluginData>>
  /\ UNCHANGED cmds
  /\ UNCHANGED cacheVars
  /\ UNCHANGED otherVars

\* adjustSettingsAndSave({includedFolders: v}, dashboardSettings, ...): the
\* active name gets its star, lastChange its reason; the window's settings
\* are what is stored
ChangeSetting(v) ==
  /\ \A t \in Tasks : ppc[t] = "idle"
  /\ CountCommand
  /\ LET updatedSettings == [includedFolders |-> v]
         settingsToSave == Merge(settingsDash, updatedSettings)
         apn == settingsToSave["activePerspectiveName"]
         starred == IF Len(apn) > 0 /\ apn # Dash /\ ~endsWithStar(apn)
                    THEN Append(apn, "*") ELSE apn
         saved == Merge(settingsToSave, [activePerspectiveName |-> starred,
                                         lastChange |-> "Dashboard Settings changed"])
     IN /\ settingsDash' = saved
        /\ pluginData' = [pluginData EXCEPT !.dashboardSettings =
                            [wrapped |-> FALSE, settings |-> saved]]
  /\ UNCHANGED <<settingsPersp, ppc, ploc>>
  /\ UNCHANGED cacheVars
  /\ UNCHANGED otherVars

(* ---- the perspective selector of the window ---- *)

\* getActivePerspectiveDef: the index of the definition whose name is the
\* active perspective name as it stands, 0 for false
getActivePerspectiveDef(dashboardSettings, perspectiveSettings) ==
  IF dashboardSettings["activePerspectiveName"] = <<>>
  THEN 0
  ELSE getPerspectiveNamed(dashboardSettings["activePerspectiveName"], perspectiveSettings)

\* handlePerspectiveChange(newValue) of the ComboBox: the cleaned settings of
\* the chosen definition are laid over the window's dashboard settings, with
\* the new active name and the reason; the window's settings are what is
\* stored, and its perspectiveSettings are the stored definitions
HandlePerspectiveChange(newValue) ==
  /\ \A t \in Tasks : ppc[t] = "idle"
  /\ CountCommand
  /\ LET perspectiveSettings == getPerspectiveSettings
         i == getPerspectiveNamed(newValue, perspectiveSettings)
     IN IF settingsDash["activePerspectiveName"] = newValue \/ i = 0
        THEN UNCHANGED <<settingsDash, pluginData>>
        ELSE LET perspectiveDashboardSettings ==
                   cleanDashboardSettings(perspectiveSettings[i].dashboardSettings)
                 next == Merge(Merge(settingsDash, perspectiveDashboardSettings),
                               [activePerspectiveName |-> newValue,
                                lastChange |-> "perspective changed"])
             IN /\ settingsDash' = next
                /\ pluginData' = [pluginData EXCEPT !.dashboardSettings =
                                    [wrapped |-> FALSE, settings |-> next]]
  /\ UNCHANGED <<settingsPersp, ppc, ploc>>
  /\ UNCHANGED cacheVars
  /\ UNCHANGED otherVars

\* "Save Perspective" chosen in the dropdown: the save is sent to the plugin
\* only for a definition that is flagged modified and is not the default
SelectSavePerspective(t) ==
  LET perspectiveSettings == getPerspectiveSettings
      i == getActivePerspectiveDef(settingsDash, perspectiveSettings)
  IN IF i # 0 /\ perspectiveSettings[i].isModified /\ perspectiveSettings[i].name # Dash
     THEN StartSave(t)
     ELSE /\ ppc[t] = "idle"
          /\ CountCommand
          /\ UNCHANGED <<settingsPersp, settingsDash, pluginData, ppc, ploc>>
          /\ UNCHANGED cacheVars
          /\ UNCHANGED otherVars

-----------------------------------------------------------------------------
(* Initial state and the specifications of the project cache *)

\* a fresh installation: no cache file, no preference; all notes exist
InitCache ==
  /\ noteExists = [f \in FilenameSet |-> TRUE]
  /\ noteVer = [f \in FilenameSet |-> 0]
  /\ now = StartNow
  /\ fileExists = FALSE
  /\ fileRecs = <<>>
  /\ genPref = 0
  /\ genFailed = FALSE
  /\ pc = [t \in Tasks |-> "idle"]
  /\ loc = [t \in Tasks |-> InitLoc]

\* a new installation: no perspectives are stored yet
InitPersp ==
  /\ settingsPersp = <<>>
  /\ settingsDash = InitialDashboardSettings
  /\ pluginData = [dashboardSettings |-> [wrapped |-> FALSE, settings |-> InitialDashboardSettings],
                   perspectiveSettings |-> <<>>]
  /\ ppc = [t \in Tasks |-> "idle"]
  /\ ploc = [t \in Tasks |-> InitPLoc]
  /\ cmds = 0

\* no call of a computing function is under way
NoResult == [done |-> FALSE, value |-> <<>>]
InitOther ==
  /\ fnArgs = <<>>
  /\ fnResult = NoResult

Init == InitCache /\ InitPersp /\ InitOther

\* the filenames a caller may pass: the notes, no name, a name of no note
UpdateFilenames == FilenameSet \cup {"", "zzz.md"}

\* the notes the user trashes and restores
TrashableNotes == {"b.md"}

CacheStart(t) ==
  \/ StartGetAll(t)
  \/ StartRegenerateAll(t)
  \/ \E f \in UpdateFilenames, d \in BOOLEAN : StartUpdateOne(t, f, d)

CacheStep(t) ==
  \/ GenScan(t)
  \/ GenWrite(t)
  \/ GetAllReturn(t)
  \/ UpdateNote(t)
  \/ Finish(t)

CacheEnv ==
  \/ Tick
  \/ \E f \in FilenameSet : EditNote(f)
  \/ \E f \in TrashableNotes : ToggleNote(f)

\* one call at a time: every caller awaits the operation it started
Next ==
  \/ CacheStart(1)
  \/ CacheStep(1)
  \/ CacheEnv

Spec == Init /\ [][Next]_vars

\* two callers: a call may start while the other is suspended at an await
\* (the clock stands still and no note is trashed: the two calls are close together)
NextCacheRace ==
  \/ \E t \in Tasks : StartGetAll(t)
  \/ \E t \in Tasks, f \in FilenameSet : StartUpdateOne(t, f, FALSE)
  \/ \E t \in Tasks : CacheStep(t)
  \/ \E f \in FilenameSet : EditNote(f)

SpecCacheRace == Init /\ [][NextCacheRace]_vars

\* the calls on the project cache over the hours, one at a time
NextAge ==
  \/ CacheStart(1)
  \/ CacheStep(1)
  \/ HourOfEdits

SpecAge == Init /\ [][NextAge]_vars

\* the dashboard refreshes its project-review Section now and then, and
\* another caller rebuilds the list
NextRefresh ==
  \/ StartProjectSection(1)
  \/ StartRegenerateAll(1)
  \/ GenScan(1)
  \/ GenWrite(1)
  \/ GetAllReturn(1)
  \/ Finish(1)
  \/ CacheEnv

SpecRefresh == Init /\ [][NextRefresh]_vars

-----------------------------------------------------------------------------
(* The specifications of the perspective store *)

\* the names a user types into the prompt of addNewPerspective
AddNames == {Dash, <<"Foo", "*">>, NameWork, NameTest, <<>>}
\* the names passed to deletePerspective and switchToPerspective
DeleteNames == {Dash, NameWork, NameTest, <<>>}
SwitchNames == {NameWork, NameTest}
\* the options picked in the ComboBox of the window
SelectorNames == {Dash, NameWork, NameTest}
\* the values the user gives to the includedFolders setting
FolderValues == {"", "Projects"}

PerspStart(t) ==
  \/ StartAdd(t)
  \/ \E n \in DeleteNames : StartDelete(t, n)
  \/ StartDeleteAll(t)
  \/ StartSave(t)
  \/ \E n \in SwitchNames : StartSwitchTo(t, n)
  \/ SelectSavePerspective(t)

PerspStep(t) ==
  \/ AddCancel(t)
  \/ \E n \in AddNames : AddInput(t, n)
  \/ AddWrite(t)
  \/ SwRead(t)
  \/ SwWrite(t)
  \/ DeleteDefs(t)
  \/ DeleteChooseCancel(t)
  \/ \E res \in DeleteNames : DeleteChoose(t, res)
  \/ DeleteFilter(t)
  \/ DeleteAllLoop(t)
  \/ SaveDefs(t)
  \/ SaveWrite(t)
  \/ PFinish(t)

\* one command at a time, the user changing settings between commands
NextPersp ==
  \/ PerspStart(1)
  \/ PerspStep(1)
  \/ \E v \in FolderValues : ChangeSetting(v)
  \/ \E n \in SelectorNames : HandlePerspectiveChange(n)

SpecPersp == Init /\ [][NextPersp]_vars

\* two commands out of add, delete and save, each run once, the one starting
\* while the other is suspended at an await
RaceAddNames == {NameTest, NameWork}
RaceDeleteNames == {NameWork, NameTest}

NextPerspRace ==
  \/ \E t \in Tasks : StartAdd(t)
  \/ \E t \in Tasks, n \in RaceAddNames : AddInput(t, n)
  \/ \E t \in Tasks : AddWrite(t)
  \/ \E t \in Tasks, n \in RaceDeleteNames : StartDelete(t, n)
  \/ \E t \in Tasks : DeleteDefs(t)
  \/ \E t \in Tasks : SwRead(t)
  \/ \E t \in Tasks : SwWrite(t)
  \/ \E t \in Tasks : DeleteFilter(t)
  \/ \E t \in Tasks : StartSave(t)
  \/ \E t \in Tasks : SaveDefs(t)
  \/ \E t \in Tasks : SaveWrite(t)

SpecPerspRace == Init /\ [][NextPerspRace]_vars

-----------------------------------------------------------------------------
(* The list of display names, computed for any collection that satisfies   *)
(* the invariants of the store: distinct names, exactly one "-"            *)

MaxDefs == 3
ListNames == {Dash, NameHome, NameWork, NameTest}
ListDefs == {[name |-> n, isModified |-> m, dashboardSettings |-> EmptySettings] :
               n \in ListNames, m \in BOOLEAN}
ListCollections ==
  {c \in UNION {[1..n -> ListDefs] : n \in 1..MaxDefs} :
     /\ \A i, j \in DOMAIN c : c[i].name = c[j].name => i = j
     /\ \E i \in DOMAIN c : c[i].name = Dash}

InitList ==
  /\ InitCache /\ InitPersp
  /\ fnArgs \in {[fn |-> "list", allDefs |-> c, includeDefaultOption |-> b] :
                   c \in ListCollections, b \in BOOLEAN}
  /\ fnResult = NoResult

CallDisplayList ==
  /\ ~fnResult.done
  /\ fnResult' = [done |-> TRUE,
                  value |-> getDisplayListOfPerspectiveNames(fnArgs.allDefs,
                                                             fnArgs.includeDefaultOption)]
  /\ UNCHANGED <<fnArgs, cacheVars, perspVars>>

NextList == CallDisplayList

SpecList == InitList /\ [][NextList]_vars

-----------------------------------------------------------------------------
(* Folders (helpers/folders.js).  A string is a sequence of pieces: words, *)
(* "/", "@", "," and " ".                                                   *)

Root == <<"/">>

\* str.includes(sub)
Includes(str, sub) ==
  \E i \in 0..(Len(str) - Len(sub)) : SubSeq(str, i + 1, i + Len(sub)) = sub

\* str.startsWith(pre)
StartsWith(str, pre) == Len(pre) <= Len(str) /\ SubSeq(str, 1, Len(pre)) = pre

EndsWithSlash(str) == Len(str) > 0 /\ str[Len(str)] = "/"

\* f.endsWith('/') ? f : `${f}/`
TerminateWithSlash(f) == IF EndsWithSlash(f) THEN f ELSE Append(f, "/")

SomeTermIncluded(terms, folder) == \E j \in DOMAIN terms : Includes(folder, terms[j])

getFoldersMatching(fullFolderList, inclusions, excludeSpecialFolders, exclusions) ==
  IF Len(inclusions) = 0 /\ Len(exclusions) = 0
  THEN <<>>
  ELSE
    LET rootIncluded == \E i \in DOMAIN inclusions : inclusions[i] = Root
        rootExcluded == \E i \in DOMAIN exclusions : exclusions[i] = Root
        inclusionsWithoutRoot == SelectSeq(inclusions, LAMBDA f : f # Root)
        exclusionsWithoutRoot == SelectSeq(exclusions, LAMBDA f : f # Root)
    IN IF Len(inclusions) = 1 /\ inclusions[1] = Root
       THEN (IF rootExcluded THEN <<>> ELSE <<Root>>)
       ELSE
         LET reducedFolderList ==
               IF excludeSpecialFolders
               THEN SelectSeq(fullFolderList, LAMBDA folder : ~StartsWith(folder, <<"@">>))
               ELSE fullFolderList
             terminated == [i \in DOMAIN reducedFolderList |->
                              TerminateWithSlash(reducedFolderList[i])]
             afterExclusions ==
               IF Len(exclusionsWithoutRoot) > 0
               THEN SelectSeq(terminated,
                      LAMBDA folder : ~SomeTermIncluded(exclusionsWithoutRoot, folder))
               ELSE terminated
             afterInclusions ==
               IF Len(inclusionsWithoutRoot) > 0
               THEN SelectSeq(afterExclusions,
                      LAMBDA folder : SomeTermIncluded(inclusionsWithoutRoot, folder))
               ELSE afterExclusions
             outputList == [i \in DOMAIN afterInclusions |->
                              IF EndsWithSlash(afterInclusions[i])
                              THEN SubSeq(afterInclusions[i], 1, Len(afterInclusions[i]) - 1)
                              ELSE afterInclusions[i]]
         IN IF rootIncluded /\ ~rootExcluded THEN <<Root>> \o outputList ELSE outputList

\* stringListOrArrayToArray(input, ','): the pieces between the separators,
\* each trimmed of its blanks; nothing for the empty string
RECURSIVE SplitOn(_, _)
SplitOn(str, separator) ==
  IF \E i \in DOMAIN str : str[i] = separator
  THEN LET i == CHOOSE k \in DOMAIN str :
                  str[k] = separator /\ \A j \in 1..(k - 1) : str[j] # separator
       IN <<SubSeq(str, 1, i - 1)>> \o SplitOn(SubSeq(str, i + 1, Len(str)), separator)
  ELSE <<str>>

RECURSIVE Trim(_)
Trim(str) ==
  IF Len(str) > 0 /\ str[1] = " " THEN Trim(Tail(str))
  ELSE IF Len(str) > 0 /\ str[Len(str)] = " " THEN Trim(SubSeq(str, 1, Len(str) - 1))
  ELSE str

stringListOrArrayToArray(input, separator) ==
  IF input = <<>>
  THEN <<>>
  ELSE [i \in DOMAIN SplitOn(input, separator) |-> Trim(SplitOn(input, separator)[i])]

\* activeDef.dashboardSettings.includedFolders ?? ''
SettingOrEmpty(settings, key) == IF key \in DOMAIN settings THEN settings[key] ELSE <<>>

\* getAllowedFoldersInCurrentPerspective returns [] before it looks at any
\* folder list: no active perspective name, or no definition found for it
AllowedFoldersGivenUp(dashboardSettings, perspectiveSettings) ==
  \/ dashboardSettings["activePerspectiveName"] = <<>>
  \/ getActivePerspectiveDef(dashboardSettings, perspectiveSettings) = 0

getAllowedFoldersInCurrentPerspective(dashboardSettings, perspectiveSettings, folders) ==
  IF dashboardSettings["activePerspectiveName"] = <<>>
  THEN <<>>
  ELSE
    LET i == getActivePerspectiveDef(dashboardSettings, perspectiveSettings)
    IN IF i = 0
       THEN <<>>
       ELSE getFoldersMatching(
              folders,
              stringListOrArrayToArray(
                SettingOrEmpty(perspectiveSettings[i].dashboardSettings, "includedFolders"), ","),
              TRUE,
              stringListOrArrayToArray(
                SettingOrEmpty(perspectiveSettings[i].dashboardSettings, "excludedFolders"), ","))

\* DataStore.folders, after the fixture of folders.test.js
DataStoreFolders ==
  << <<"@", "Templates">>, Root, <<"CCC", "Areas">>, <<"CCC", "Areas", "/", "Staff">>,
     <<"Home">>, <<"TEST">>, <<"TEST", "/", "LEVEL">> >>

\* the terms a user writes into the folder settings, and the lists of up to
\* MaxTerms of them, written with ", " between
MaxTerms == 2
FolderTerms == {<<"CCC">>, <<"TEST">>, <<"LEVEL">>, <<"Staff">>, Root}

RECURSIVE JoinWithComma(_)
JoinWithComma(terms) ==
  IF Len(terms) = 0 THEN <<>>
  ELSE IF Len(terms) = 1 THEN terms[1]
  ELSE terms[1] \o <<",", " ">> \o JoinWithComma(Tail(terms))

TermLists ==
  {l \in UNION {[1..n -> FolderTerms] : n \in 0..MaxTerms} :
     \A i, j \in DOMAIN l : l[i] = l[j] => i = j}

InitAllowed ==
  /\ InitCache /\ InitPersp
  /\ fnArgs \in
       {[fn |-> "allowedFolders",
         dashboardSettings |-> [activePerspectiveName |-> apn],
         perspectiveSettings |->
           << [name |-> Dash, isModified |-> FALSE, dashboardSettings |-> EmptySettings],
              [name |-> NameWork, isModified |-> FALSE,
               dashboardSettings |-> [includedFolders |-> JoinWithComma(inc),
                                      excludedFolders |-> JoinWithComma(exc)]] >>,
         folders |-> DataStoreFolders] :
          apn \in {Dash, NameWork, <<"Work", "*">>, <<>>},
          inc \in TermLists, exc \in TermLists}
  /\ fnResult = NoResult

CallAllowedFolders ==
  /\ ~fnResult.done
  /\ fnResult' = [done |-> TRUE,
                  value |-> getAllowedFoldersInCurrentPerspective(
                              fnArgs.dashboardSettings, fnArgs.perspectiveSettings,
                              fnArgs.folders)]
  /\ UNCHANGED <<fnArgs, cacheVars, perspVars>>

NextAllowed == CallAllowedFolders

SpecAllowed == InitAllowed /\ [][NextAllowed]_vars

\* outputList.splice(outputList.indexOf('/'), 1): indexOf gives -1 when there is
\* no '/', and splice(-1, 1) takes the last item away
RemoveRoot(outputList) ==
  IF \E i \in DOMAIN outputList : outputList[i] = Root
  THEN LET itemToRemove == CHOOSE i \in DOMAIN outputList :
                             /\ outputList[i] = Root
                             /\ \A j \in 1..(i - 1) : outputList[j] # Root
       IN SubSeq(outputList, 1, itemToRemove - 1)
            \o SubSeq(outputList, itemToRemove + 1, Len(outputList))
  ELSE SubSeq(outputList, 1, Len(outputList) - 1)

getFolderListMinusExclusions(fullFolderList, exclusions, excludeSpecialFolders, forceExcludeRootFolder) ==
  LET excludeRoot == forceExcludeRootFolder \/ \E i \in DOMAIN exclusions : exclusions[i] = Root
      reducedFolderList ==
        IF excludeSpecialFolders
        THEN SelectSeq(fullFolderList, LAMBDA folder : ~StartsWith(folder, <<"@">>))
        ELSE fullFolderList
      terminated == [i \in DOMAIN reducedFolderList |-> TerminateWithSlash(reducedFolderList[i])]
      exclusionsWithoutRoot == SelectSeq(exclusions, LAMBDA e : e # Root)
      exclusionsTerminatedWithSlash ==
        [i \in DOMAIN exclusionsWithoutRoot |-> TerminateWithSlash(exclusionsWithoutRoot[i])]
      kept == SelectSeq(terminated,
                LAMBDA folder : ~\E i \in DOMAIN exclusionsTerminatedWithSlash :
                                    StartsWith(folder, exclusionsTerminatedWithSlash[i]))
      outputList == [i \in DOMAIN kept |->
                       IF kept[i] # Root /\ EndsWithSlash(kept[i])
                       THEN SubSeq(kept[i], 1, Len(kept[i]) - 1)
                       ELSE kept[i]]
  IN IF excludeRoot THEN RemoveRoot(outputList) ELSE outputList

\* the folder lists of the note store, the terms a caller passes, and the
\* lists of up to MaxTerms of them
FolderLists == {DataStoreFolders, SelectSeq(DataStoreFolders, LAMBDA f : f # Root)}
FolderArgTerms == FolderTerms \cup {<<"TEST", "/", "LEVEL">>}
FolderArgLists ==
  {l \in UNION {[1..n -> FolderArgTerms] : n \in 0..MaxTerms} :
     \A i, j \in DOMAIN l : l[i] = l[j] => i = j}

InitFolders ==
  /\ InitCache /\ InitPersp
  /\ fnArgs \in [fn : {"folders"}, folders : FolderLists, inclusions : FolderArgLists,
                  exclusions : FolderArgLists, excludeSpecialFolders : BOOLEAN,
                  forceExcludeRootFolder : BOOLEAN]
  /\ fnResult = NoResult

CallGetFoldersMatching ==
  /\ ~fnResult.done
  /\ ~fnArgs.forceExcludeRootFolder
  /\ fnResult' = [done |-> TRUE,
                  value |-> [fn |-> "getFoldersMatching",
                             folders |-> getFoldersMatching(fnArgs.folders, fnArgs.inclusions,
                                           fnArgs.excludeSpecialFolders, fnArgs.exclusions)]]
  /\ UNCHANGED <<fnArgs, cacheVars, perspVars>>

CallGetFolderListMinusExclusions ==
  /\ ~fnResult.done
  /\ fnArgs.inclusions = <<>>
  /\ fnResult' = [done |-> TRUE,
                  value |-> [fn |-> "getFolderListMinusExclusions",
                             folders |-> getFolderListMinusExclusions(fnArgs.folders,
                                           fnArgs.exclusions, fnArgs.excludeSpecialFolders,
                                           fnArgs.forceExcludeRootFolder)]]
  /\ UNCHANGED <<fnArgs, cacheVars, perspVars>>

NextFolders == CallGetFoldersMatching \/ CallGetFolderListMinusExclusions

SpecFolders == InitFolders /\ [][NextFolders]_vars

-----------------------------------------------------------------------------
(* The aggregator (dataGeneration.js): which section builders one call of  *)
(* getSomeSectionsData runs, in the order it runs them                      *)

allSectionCodes ==
  {"TB", "DT", "DY", "DO", "W", "M", "Q", "PROJ", "TAG", "OVERDUE", "PRIORITY"}

\* if (cond) sections.push(...)
RunIf(cond, builder) == IF cond THEN <<builder>> ELSE <<>>

\* a variant that refreshes today whatever was asked for
getSomeSectionsDataAlwaysToday(sectionCodesToGet, config) ==
  RunIf("TB" \in sectionCodesToGet, "getTimeBlockSectionData")
  \o RunIf(TRUE, "getTodaySectionData")
  \o RunIf("DY" \in sectionCodesToGet /\ config.showYesterdaySection, "getYesterdaySectionData")
  \o RunIf("DO" \in sectionCodesToGet /\ config.showWeekSection, "getTomorrowSectionData")
  \o RunIf("W" \in sectionCodesToGet /\ config.showWeekSection, "getThisWeekSectionData")
  \o RunIf("M" \in sectionCodesToGet /\ config.showMonthSection, "getThisMonthSectionData")
  \o RunIf("Q" \in sectionCodesToGet /\ config.showQuarterSection, "getThisQuarterSectionData")
  \o RunIf("PROJ" \in sectionCodesToGet /\ config.showProjectSection, "getProjectSectionData")
  \o RunIf("TAG" \in sectionCodesToGet /\ config.tagsToShow # <<>>, "getTaggedSections")
  \o RunIf("OVERDUE" \in sectionCodesToGet /\ config.showOverdueSection, "getOverdueSectionData")
  \o RunIf("PRIORITY" \in sectionCodesToGet /\ config.showPrioritySection, "getPrioritySectionData")

getSomeSectionsData(sectionCodesToGet, config) ==
  RunIf("TB" \in sectionCodesToGet, "getTimeBlockSectionData")
  \o RunIf("DT" \in sectionCodesToGet, "getTodaySectionData")
  \o RunIf("DY" \in sectionCodesToGet /\ config.showYesterdaySection, "getYesterdaySectionData")
  \o RunIf("DO" \in sectionCodesToGet /\ config.showWeekSection, "getTomorrowSectionData")
  \o RunIf("W" \in sectionCodesToGet /\ config.showWeekSection, "getThisWeekSectionData")
  \o RunIf("M" \in sectionCodesToGet /\ config.showMonthSection, "getThisMonthSectionData")
  \o RunIf("Q" \in sectionCodesToGet /\ config.showQuarterSection, "getThisQuarterSectionData")
  \o RunIf("PROJ" \in sectionCodesToGet /\ config.showProjectSection, "getProjectSectionData")
  \o RunIf("TAG" \in sectionCodesToGet /\ config.tagsToShow # <<>>, "getTaggedSections")
  \o RunIf("OVERDUE" \in sectionCodesToGet /\ config.showOverdueSection, "getOverdueSectionData")
  \o RunIf("PRIORITY" \in sectionCodesToGet /\ config.showPrioritySection, "getPrioritySectionData")

\* the callers ask for at most MaxCodes section codes
MaxCodes == 2
SectionCodeLists == {c \in SUBSET allSectionCodes : Cardinality(c) <= MaxCodes}
SectionConfigs ==
  [showYesterdaySection : BOOLEAN, showWeekSection : BOOLEAN, showMonthSection : {TRUE},
   showQuarterSection : {FALSE}, showProjectSection : BOOLEAN,
   tagsToShow : {<<>>, <<"#next">>}, showOverdueSection : {TRUE}, showPrioritySection : {FALSE}]

InitSections ==
  /\ InitCache /\ InitPersp
  /\ fnArgs \in {[fn |-> "getSomeSectionsData", sectionCodesToGet |-> c, config |-> g] :
                   c \in SectionCodeLists, g \in SectionConfigs}
  /\ fnResult = NoResult

CallGetSomeSectionsData ==
  /\ ~fnResult.done
  /\ fnResult' = [done |-> TRUE,
                  value |-> getSomeSectionsData(fnArgs.sectionCodesToGet, fnArgs.config)]
  /\ UNCHANGED <<fnArgs, cacheVars, perspVars>>

NextSections == CallGetSomeSectionsData

SpecSections == InitSections /\ [][NextSections]_vars

-----------------------------------------------------------------------------
(* The section builders (dataGeneration.js).  A builder reads the settings  *)
(* ("config") and the note store ("world") and returns Sections.            *)
(* Strings that the code assembles are sequences of pieces: the item ID     *)
(* `${sectionNum}-${itemCount}` is sectionNum \o <<"-", itemCount>>.        *)

\* what a builder returns from its catch block
null == [ID |-> <<"null">>, sectionCode |-> "null"]

\* getSectionItemObject(id, p)
getSectionItemObject(id, p) == [ID |-> id, itemType |-> p.type, para |-> p]

\* the { ID: sectionNum, name, showSettingName, sectionCode, sectionItems } literal
\* of the time-period, project and time-block builders
SectionObject(sectionNum, name, showSettingName, thisSectionCode, items) ==
  [ID |-> sectionNum, name |-> name, showSettingName |-> showSettingName,
   sectionCode |-> thisSectionCode, sectionItems |-> items]

\* paras.map((p) => { thisID = `${sectionNum}-${itemCount}`; items.push(...); itemCount++ })
PushItems(sectionNum, paras, itemCount) ==
  [i \in 1..Len(paras) |-> getSectionItemObject(sectionNum \o <<"-", itemCount + i - 1>>, paras[i])]

\* dashboardHelpers.getOpenItemParasForCurrentTimePeriod: [own or combined, referenced]
getOpenItemParasForCurrentTimePeriod(note, config) ==
  IF config.separateSectionForReferencedNotes
  THEN <<note.open, note.refs>>
  ELSE <<note.open \o note.refs, <<>>>>

\* items of the demo data ({ ID: thisID, ...item })
PushDemoItems(sectionNum, demoItems, itemCount) ==
  [i \in 1..Len(demoItems) |->
     Merge([ID |-> sectionNum \o <<"-", itemCount + i - 1>>], demoItems[i])]

\* sortedOrCombinedParas and sortedRefParas of a period whose note may not exist
ParasFor(config, world) ==
  IF world.noteExists
  THEN getOpenItemParasForCurrentTimePeriod(world.note, config)
  ELSE <<<<>>, <<>>>>

\* the four lastIndent<N>ParentID variables
NoParents == [l \in 0..3 |-> <<>>]

\* parentParaID: the slot of the level above, for indent levels 1 to 4
ParentParaID(socp, lastIndentParentID) ==
  IF socp.indentLevel \in 1..4 THEN lastIndentParentID[socp.indentLevel - 1] ELSE <<>>

\* a variant that remembers every item, parent or not
RememberAnyItem(socp, thisID, lastIndentParentID) ==
  IF socp.indentLevel \in 0..3
  THEN [lastIndentParentID EXCEPT ![socp.indentLevel] = thisID]
  ELSE lastIndentParentID

\* if (socp.hasChild) switch (socp.indentLevel) { case 0: ... case 3: }
RememberParent(socp, thisID, lastIndentParentID) ==
  IF socp.hasChild /\ socp.indentLevel \in 0..3
  THEN [lastIndentParentID EXCEPT ![socp.indentLevel] = thisID]
  ELSE lastIndentParentID

\* the loop over sortedOrCombinedParas of the today builder
RECURSIVE TodayLoop(_, _, _, _)
TodayLoop(sortedOrCombinedParas, itemCount, lastIndentParentID, items) ==
  IF itemCount = Len(sortedOrCombinedParas)
  THEN items
  ELSE LET socp == sortedOrCombinedParas[itemCount + 1]
           thisID == <<"0", "-", itemCount>>
           thisSectionItemObject == getSectionItemObject(thisID, socp)
           withParent == IF socp.isAChild
                         THEN Merge(thisSectionItemObject,
                                    [parentID |-> ParentParaID(socp, lastIndentParentID)])
                         ELSE thisSectionItemObject
       IN TodayLoop(sortedOrCombinedParas, itemCount + 1,
                    RememberParent(socp, thisID, lastIndentParentID),
                    Append(items, withParent))

\* the tail of a time-period builder: the first (or combined) section, then
\* the section of referenced items, whose IDs go on from the same itemCount
PeriodSections(config, sectionNum, refSectionNum, thisSectionCode, name, showSettingName, items, refItems) ==
  LET first == SectionObject(sectionNum, name, showSettingName, thisSectionCode, items)
      second == SectionObject(refSectionNum, <<">">> \o name, showSettingName, thisSectionCode, refItems)
  IN IF config.separateSectionForReferencedNotes THEN <<first, second>> ELSE <<first>>

\* the items of the first (or combined) section of a builder without parent linkage
FirstItems(config, world, sectionNum) ==
  IF world.useDemoData
  THEN PushDemoItems(sectionNum,
         IF config.separateSectionForReferencedNotes
         THEN world.demo.open ELSE world.demo.open \o world.demo.refs, 0)
  ELSE PushItems(sectionNum, ParasFor(config, world)[1], 0)

\* the items of the section of referenced items
RefItems(config, world, refSectionNum, itemCount) ==
  IF world.useDemoData
  THEN PushDemoItems(refSectionNum, world.demo.refs, itemCount)
  ELSE PushItems(refSectionNum, ParasFor(config, world)[2], itemCount)

getTodaySectionData(config, world) ==
  IF "getTodaySectionData" \in world.fails
  THEN <<>>
  ELSE LET items == IF world.useDemoData
                    THEN FirstItems(config, world, <<"0">>)
                    ELSE TodayLoop(ParasFor(config, world)[1], 0, NoParents, <<>>)
       IN PeriodSections(config, <<"0">>, <<"1">>, "DT", <<"Today">>, "showTodaySection",
                         items, RefItems(config, world, <<"1">>, Len(items)))

getYesterdaySectionData(config, world) ==
  IF "getYesterdaySectionData" \in world.fails
  THEN <<>>
  ELSE LET items == FirstItems(config, world, <<"2">>)
       IN PeriodSections(config, <<"2">>, <<"3">>, "DY", <<"Yesterday">>, "showYesterdaySection",
                         items, RefItems(config, world, <<"3">>, Len(items)))

\* builds both sections like the others, but ends with `return [section]`
getTomorrowSectionData(config, world) ==
  IF "getTomorrowSectionData" \in world.fails
  THEN <<>>
  ELSE LET items == FirstItems(config, world, <<"4">>)
       IN <<PeriodSections(config, <<"4">>, <<"5">>, "DO", <<"Tomorrow">>, "showTomorrowSection",
                           items, RefItems(config, world, <<"5">>, Len(items)))[1]>>

getThisWeekSectionData(config, world) ==
  IF "getThisWeekSectionData" \in world.fails
  THEN <<>>
  ELSE LET items == FirstItems(config, world, <<"6">>)
       IN PeriodSections(config, <<"6">>, <<"7">>, "W", <<"This Week">>, "showWeekSection",
                         items, RefItems(config, world, <<"7">>, Len(items)))

getThisMonthSectionData(config, world) ==
  IF "getThisMonthSectionData" \in world.fails
  THEN <<>>
  ELSE LET items == FirstItems(config, world, <<"8">>)
       IN PeriodSections(config, <<"8">>, <<"9">>, "M", <<"This Month">>, "showMonthSection",
                         items, RefItems(config, world, <<"9">>, Len(items)))

\* the quarter builder has no demo data
getThisQuarterSectionData(config, world) ==
  IF "getThisQuarterSectionData" \in world.fails
  THEN <<>>
  ELSE LET items == IF world.useDemoData THEN <<>> ELSE FirstItems(config, world, <<"10">>)
       IN PeriodSections(config, <<"10">>, <<"11">>, "Q", <<"This Quarter">>, "showQuarterSection",
                         items,
                         IF world.useDemoData THEN <<>>
                         ELSE RefItems(config, world, <<"11">>, Len(items)))

\* sectionHelpers.getTagSectionDetails: one detail per tag of config.tagsToShow
getTagSectionDetails(config) ==
  LET tags == stringListOrArrayToArray(config.tagsToShow, ",")
  IN [i \in DOMAIN tags |->
        [sectionName |-> tags[i], showSettingName |-> <<"showTagSection_">> \o tags[i]]]

\* isOpenTask(p) when checklists are ignored, isOpen(p) otherwise
IsOpenFor(config, p) ==
  IF config.ignoreChecklistItems THEN p.type = "open" ELSE p.type \in {"open", "checklist"}

\* Save this para, unless it matches the 'ignoreItemsWithTerms' setting
NotIgnored(config, p) ==
  \/ config.ignoreItemsWithTerms = <<>>
  \/ ~Includes(p.content, config.ignoreItemsWithTerms)

\* the loop over notesWithTag, one note after the other
RECURSIVE TagParasOfNotes(_, _, _)
TagParasOfNotes(config, notesWithTag, sectionName) ==
  IF notesWithTag = <<>>
  THEN <<>>
  ELSE LET n == Head(notesWithTag)
           rest == TagParasOfNotes(config, Tail(notesWithTag), sectionName)
           Keep(p) == /\ Includes(p.content, sectionName)
                      /\ IsOpenFor(config, p) /\ Trim(p.content) # <<>>
                      /\ NotIgnored(config, p)
       IN IF \E i \in DOMAIN stringListOrArrayToArray(config.excludedFolders, ",") :
               stringListOrArrayToArray(config.excludedFolders, ",")[i] = n.folder
          THEN rest
          ELSE SelectSeq(n.paragraphs, Keep) \o rest

\* helpers/syncedCopies.eliminateDuplicateSyncedParagraphs: the first copy of
\* every synced line is kept
RECURSIVE eliminateDuplicateSyncedParagraphs(_)
eliminateDuplicateSyncedParagraphs(paras) ==
  IF paras = <<>>
  THEN <<>>
  ELSE LET front == SubSeq(paras, 1, Len(paras) - 1)
           last == paras[Len(paras)]
       IN IF last.blockId # "" /\ \E i \in DOMAIN front : front[i].blockId = last.blockId
          THEN eliminateDuplicateSyncedParagraphs(front)
          ELSE Append(eliminateDuplicateSyncedParagraphs(front), last)

\* list.length > maxInSection ? list.slice(0, maxInSection) : list
ApplyLimit(list, maxInSection) ==
  IF Len(list) > maxInSection THEN SubSeq(list, 1, maxInSection) ELSE list

\* findNotesMatchingHashtagOrMention(sectionName)
findNotesMatchingHashtagOrMention(world, sectionName) ==
  LET HasTag(n) == \E i \in DOMAIN n.paragraphs : Includes(n.paragraphs[i].content, sectionName)
  IN SelectSeq(world.notes, HasTag)

\* sectionName.startsWith('#') || sectionName.startsWith('@')
HashtagsAndMentions == {"#home", "#work", "#next", "@me"}
isHashtagOrMention(sectionName) ==
  Len(sectionName) > 0 /\ sectionName[1] \in HashtagsAndMentions

getTaggedSectionData(config, world, sectionDetail, index) ==
  LET sectionNum == <<"12", "-", index>>
      maxInSection == config.maxItemsToShowInSection
      NotFuture(p) == ~p.future
      filteredTagParas ==
        IF isHashtagOrMention(sectionDetail.sectionName)
        THEN SelectSeq(TagParasOfNotes(config,
                         findNotesMatchingHashtagOrMention(world, sectionDetail.sectionName),
                         sectionDetail.sectionName), NotFuture)
        ELSE <<>>
      dashboardParas == eliminateDuplicateSyncedParagraphs(filteredTagParas)
      sortedTagParasLimited == ApplyLimit(dashboardParas, maxInSection)
      items == IF world.useDemoData
               THEN PushDemoItems(sectionNum, world.demo.tagParasFromNote, 0)
               ELSE [i \in DOMAIN sortedTagParasLimited |->
                       getSectionItemObject(sectionNum \o <<".", i - 1>>, sortedTagParasLimited[i])]
      totalCount == IF world.useDemoData THEN 0 ELSE Len(dashboardParas)
  IN [ID |-> sectionNum, name |-> sectionDetail.sectionName,
      showSettingName |-> sectionDetail.showSettingName, sectionCode |-> "TAG",
      sectionItems |-> items, totalCount |-> totalCount]

\* typeof showSettingForTag === 'undefined' || showSettingForTag, where
\* config.hiddenTagSections lists the tags whose show setting is false
ShowTag(config, sectionDetail) ==
  \A i \in DOMAIN config.hiddenTagSections :
    config.hiddenTagSections[i] # sectionDetail.sectionName

\* the reduce over the tag sections; an error in getTaggedSectionData is not caught here
getTaggedSections(config, world) ==
  LET tagSections == getTagSectionDetails(config)
      Shown(d) == ShowTag(config, d)
      IndexOf(d) == CHOOSE i \in DOMAIN tagSections : tagSections[i] = d
      shown == SelectSeq(tagSections, Shown)
  IN [i \in DOMAIN shown |-> getTaggedSectionData(config, world, shown[i], IndexOf(shown[i]) - 1)]

\* the tag builder throws: some tag section is built and getTaggedSectionData fails
TaggedSectionsThrow(config, world) ==
  /\ "getTaggedSectionData" \in world.fails
  /\ \E i \in DOMAIN getTagSectionDetails(config) : ShowTag(config, getTagSectionDetails(config)[i])

\* the 60 fake paragraphs of the demo data of the overdue and priority builders
DemoParaCount == 60
DemoParas == [c \in 1..DemoParaCount |-> [type |-> IF (c - 1) % 3 = 0 THEN "checklist" ELSE "open",
                                          content |-> <<"test">>,
                                          future |-> FALSE, blockId |-> ""]]

\* the { ..., sectionItems, totalCount } section of the overdue and priority builders
LimitedSection(sectionNum, name, showSettingName, thisSectionCode, paras, maxInSection) ==
  LET limited == ApplyLimit(paras, maxInSection)
  IN Merge(SectionObject(sectionNum, name, showSettingName, thisSectionCode,
                         PushItems(sectionNum, limited, 0)),
           [totalCount |-> Len(paras)])

getOverdueSectionData(config, world) ==
  IF "getOverdueSectionData" \in world.fails
  THEN null
  ELSE LimitedSection(<<"13">>, <<"Overdue Tasks">>, "showOverdueSection", "OVERDUE",
                      IF world.useDemoData THEN DemoParas ELSE world.overdueParas,
                      config.maxItemsToShowInSection)

getPrioritySectionData(config, world) ==
  IF "getPrioritySectionData" \in world.fails
  THEN null
  ELSE LimitedSection(<<"14">>, <<"Priority Tasks">>, "showPrioritySection", "PRIORITY",
                      IF world.useDemoData THEN DemoParas ELSE world.priorityParas,
                      config.maxItemsToShowInSection)

\* a variant that takes a project whatever its next review date
ReviewIsDueAnyDay(thisProject) == TRUE

\* thisProject.nextReviewDays ?? NaN, compared with 0
ReviewIsDue(thisProject) ==
  "nextReviewDays" \in DOMAIN thisProject /\ thisProject.nextReviewDays <= 0

\* a variant that never compares with the filename of the record before
DiffersFromAnyLast(thisNoteFilename, lastFilename) == TRUE

\* thisNoteFilename !== lastFilename
DiffersFromLast(thisNoteFilename, lastFilename) == thisNoteFilename # lastFilename

\* the loop of getNextProjectsToReview from index i on
RECURSIVE ReviewLoop(_, _, _, _, _)
ReviewLoop(allProjectsSorted, numToReturn, i, lastFilename, projectsToReview) ==
  IF i > Len(allProjectsSorted)
  THEN projectsToReview
  ELSE LET thisProject == allProjectsSorted[i]
           thisNoteFilename == thisProject.filename
           selected == /\ ReviewIsDue(thisProject)
                       /\ ~thisProject.isCompleted /\ ~thisProject.isPaused
                       /\ DiffersFromLast(thisNoteFilename, lastFilename)
       IN IF selected /\ ~thisProject.noteFound
          THEN ReviewLoop(allProjectsSorted, numToReturn, i + 1, lastFilename, projectsToReview)
          ELSE IF selected /\ numToReturn > 0 /\ Len(projectsToReview) + 1 >= numToReturn
          THEN Append(projectsToReview, thisProject)
          ELSE ReviewLoop(allProjectsSorted, numToReturn, i + 1, thisNoteFilename,
                          IF selected THEN Append(projectsToReview, thisProject)
                          ELSE projectsToReview)

getNextProjectsToReview(world, numToReturn) ==
  IF "getNextProjectsToReview" \in world.fails \/ world.projects = <<>>
  THEN <<>>
  ELSE ReviewLoop(world.projects, numToReturn, 1, "", <<>>)

\* has no try/catch of its own: see ProjectSectionThrows
getProjectSectionData(config, world) ==
  LET nextProjectsToReview == getNextProjectsToReview(world, config.maxItemsToShowInSection)
      ProjectItem(p) == [title |-> p.title, filename |-> p.filename]
      items == IF world.useDemoData
               THEN [i \in DOMAIN world.demo.projects |->
                       [ID |-> <<"15", "-", i - 1>>, itemType |-> "project",
                        project |-> ProjectItem(world.demo.projects[i])]]
               ELSE [i \in DOMAIN nextProjectsToReview |->
                       [ID |-> <<"15", "-", i - 1>>, itemType |-> "project",
                        project |-> ProjectItem(nextProjectsToReview[i])]]
  IN SectionObject(<<"15">>, <<"Projects">>, "showProjectSection", "PROJ", items)

ProjectSectionThrows(config, world) == "getProjectSectionData" \in world.fails

getTimeBlockSectionData(config, world) ==
  IF "getTimeBlockSectionData" \in world.fails
  THEN null
  ELSE SectionObject(<<"16">>, <<"Current time block">>, "showTimeBlockSection", "TB",
         IF world.timeblockPara = <<>>
         THEN <<>>
         ELSE <<[ID |-> <<"16", "-", 0>>, itemType |-> "timeblock", para |-> world.timeblockPara[1]]>>)

-----------------------------------------------------------------------------
(* The aggregator pass: what getSomeSectionsData and getAllSectionsData      *)
(* return                                                                    *)

\* what one builder call adds to `sections`
SectionsPushed(builder, config, world) ==
  CASE builder = "getTimeBlockSectionData" -> <<getTimeBlockSectionData(config, world)>>
    [] builder = "getTodaySectionData" -> getTodaySectionData(config, world)
    [] builder = "getYesterdaySectionData" -> getYesterdaySectionData(config, world)
    [] builder = "getTomorrowSectionData" -> getTomorrowSectionData(config, world)
    [] builder = "getThisWeekSectionData" -> getThisWeekSectionData(config, world)
    [] builder = "getThisMonthSectionData" -> getThisMonthSectionData(config, world)
    [] builder = "getThisQuarterSectionData" -> getThisQuarterSectionData(config, world)
    [] builder = "getProjectSectionData" ->
         \* if (projectSection) sections.push(projectSection)
         IF getProjectSectionData(config, world) = null
         THEN <<>> ELSE <<getProjectSectionData(config, world)>>
    [] builder = "getTaggedSections" ->
         \* getTaggedSections(...).filter((s) => s)
         LET NotNull(s) == s # null
         IN SelectSeq(getTaggedSections(config, world), NotNull)
    [] builder = "getOverdueSectionData" -> <<getOverdueSectionData(config, world)>>
    [] builder = "getPrioritySectionData" -> <<getPrioritySectionData(config, world)>>

RECURSIVE RunBuilders(_, _, _)
RunBuilders(builders, config, world) ==
  IF builders = <<>>
  THEN <<>>
  ELSE SectionsPushed(Head(builders), config, world) \o RunBuilders(Tail(builders), config, world)

\* an error leaves a builder that has no try/catch and reaches the catch block
\* of getSomeSectionsData
PassThrows(builders, config, world) ==
  \E i \in DOMAIN builders :
    \/ builders[i] = "getTaggedSections" /\ TaggedSectionsThrow(config, world)
    \/ builders[i] = "getProjectSectionData" /\ ProjectSectionThrows(config, world)

\* the array getSomeSectionsData returns: `sections.filter((s) => s)` is
\* computed and dropped, `sections` itself is returned
SomeSectionsData(sectionCodesToGet, config, world) ==
  LET builders == getSomeSectionsData(sectionCodesToGet, config)
  IN IF PassThrows(builders, config, world)
     THEN <<>>
     ELSE RunBuilders(builders, config, world)

getAllSectionsData(forceLoadAll, enabledSections, config, world) ==
  LET sectionsToShow == IF forceLoadAll THEN allSectionCodes ELSE enabledSections
      NotNull(s) == s # null
  IN SelectSeq(SomeSectionsData(sectionsToShow, config, world), NotNull)

\* paragraphs of the period notes
ParaTask == [type |-> "open", content |-> <<"task">>, indentLevel |-> 0,
             isAChild |-> FALSE, hasChild |-> FALSE]
ParaRef == [type |-> "open", content |-> <<"scheduled">>, indentLevel |-> 0,
            isAChild |-> FALSE, hasChild |-> FALSE]
\* lines of the project notes
LineHome == [type |-> "open", content |-> <<"call", " ", "#home">>, future |-> FALSE, blockId |-> ""]
LineWork == [type |-> "open", content |-> <<"mail", " ", "#work">>, future |-> FALSE, blockId |-> ""]
ProjectDue == [filename |-> "a.md", title |-> "A", nextReviewDays |-> 0,
               isCompleted |-> FALSE, isPaused |-> FALSE, noteFound |-> TRUE]
\* the demo data (demoData.js)
DemoData == [open |-> <<[itemType |-> "open", para |-> ParaTask],
                        [itemType |-> "checklist", para |-> ParaTask]>>,
             refs |-> <<[itemType |-> "open", para |-> ParaRef]>>,
             tagParasFromNote |-> <<[itemType |-> "open", para |-> LineHome],
                                    [itemType |-> "checklist", para |-> LineHome]>>,
             projects |-> <<[filename |-> "demo.md", title |-> "Demo"]>>]

\* a small note store with one item of every kind
BaseWorld ==
  [useDemoData |-> FALSE, noteExists |-> TRUE,
   note |-> [open |-> <<ParaTask>>, refs |-> <<ParaRef>>],
   notes |-> <<[folder |-> <<"Home">>, paragraphs |-> <<LineHome>>],
               [folder |-> <<"Work">>, paragraphs |-> <<LineWork>>]>>,
   overdueParas |-> <<ParaTask>>, priorityParas |-> <<ParaTask>>,
   projects |-> <<ProjectDue>>, timeblockPara |-> <<>>,
   demo |-> DemoData, fails |-> {}]

BaseConfig ==
  [showTimeBlockSection |-> TRUE, showTodaySection |-> TRUE,
   showYesterdaySection |-> TRUE, showTomorrowSection |-> TRUE, showWeekSection |-> TRUE,
   showMonthSection |-> TRUE, showQuarterSection |-> TRUE, showProjectSection |-> TRUE,
   showOverdueSection |-> TRUE, showPrioritySection |-> TRUE,
   tagsToShow |-> <<"#home", ",", "#work">>, hiddenTagSections |-> <<>>,
   separateSectionForReferencedNotes |-> FALSE, maxItemsToShowInSection |-> 2,
   ignoreItemsWithTerms |-> <<>>, ignoreChecklistItems |-> FALSE, excludedFolders |-> <<>>]

\* the builders, and the one builder (if any) in which an error occurs
Builders ==
  {"getTimeBlockSectionData", "getTodaySectionData", "getYesterdaySectionData",
   "getTomorrowSectionData", "getThisWeekSectionData", "getThisMonthSectionData",
   "getThisQuarterSectionData", "getProjectSectionData", "getTaggedSectionData",
   "getOverdueSectionData", "getPrioritySectionData"}
FailureSets == {{}} \cup {{b} : b \in Builders}

PassConfigs ==
  {Merge(BaseConfig, c) :
     c \in [showTomorrowSection : BOOLEAN, showWeekSection : BOOLEAN,
            showOverdueSection : BOOLEAN, separateSectionForReferencedNotes : BOOLEAN,
            tagsToShow : {<<>>, <<"#home", ",", "#work">>}]}

InitPass ==
  /\ InitCache /\ InitPersp
  /\ fnArgs \in {[fn |-> "refresh", sectionCodesToGet |-> c, config |-> g,
                  world |-> [BaseWorld EXCEPT !.fails = f]] :
                   c \in SectionCodeLists, g \in PassConfigs, f \in FailureSets}
  /\ fnResult = NoResult

\* a partial refresh: getSomeSectionsData(sectionCodesToGet)
RefreshSomeSections ==
  /\ ~fnResult.done
  /\ fnResult' = [done |-> TRUE,
                  value |-> [fn |-> "getSomeSectionsData",
                             sections |-> SomeSectionsData(fnArgs.sectionCodesToGet,
                                                           fnArgs.config, fnArgs.world)]]
  /\ UNCHANGED <<fnArgs, cacheVars, perspVars>>

\* a full refresh: getAllSectionsData, with every section (forceLoadAll) or
\* with the sections getListOfEnabledSections(config) names
RefreshAllSections(forceLoadAll) ==
  /\ ~fnResult.done
  /\ fnResult' = [done |-> TRUE,
                  value |-> [fn |-> "getAllSectionsData", forceLoadAll |-> forceLoadAll,
                             sections |-> getAllSectionsData(forceLoadAll, fnArgs.sectionCodesToGet,
                                                             fnArgs.config, fnArgs.world)]]
  /\ UNCHANGED <<fnArgs, cacheVars, perspVars>>

NextPass ==
  \/ RefreshSomeSections
  \/ \E forceLoadAll \in BOOLEAN : RefreshAllSections(forceLoadAll)

SpecPass == InitPass /\ [][NextPass]_vars

-----------------------------------------------------------------------------
(* One builder called on its own, over varied notes, lines and projects *)

\* a paragraph of a calendar note
Para(indentLevel, isAChild, hasChild) ==
  [type |-> "open", content |-> <<"task">>, indentLevel |-> indentLevel,
   isAChild |-> isAChild, hasChild |-> hasChild, blockId |-> ""]
\* a copy of the synced line ^a1: every copy carries the same block ID
SyncedPara == [Para(0, FALSE, FALSE) EXCEPT !.blockId = "^a1"]
ParaPool ==
  {SyncedPara, Para(0, FALSE, FALSE), Para(0, FALSE, TRUE), Para(1, TRUE, FALSE), Para(1, TRUE, TRUE),
   Para(2, TRUE, FALSE), Para(4, FALSE, TRUE), Para(5, TRUE, FALSE)}
MaxParas == 3
ParaLists == UNION {[1..n -> ParaPool] : n \in 0..MaxParas}

PeriodInputs ==
  {[fn |-> "periods",
    config |-> Merge(BaseConfig, [separateSectionForReferencedNotes |-> s,
                                  maxItemsToShowInSection |-> m]),
    world |-> [BaseWorld EXCEPT !.useDemoData = d, !.note.open = ps,
                                !.overdueParas = ps, !.priorityParas = ps,
                                !.timeblockPara = IF ps = <<>> THEN <<>> ELSE <<ps[1]>>]] :
     s \in BOOLEAN, m \in {1, 2}, d \in BOOLEAN, ps \in ParaLists}

\* a line of a project note
Line(type, content, future, blockId) ==
  [type |-> type, content |-> content, future |-> future, blockId |-> blockId]
LineBoth == Line("open", <<"#home", " ", "#work">>, FALSE, "")
NotePool ==
  {[folder |-> <<"Home">>, paragraphs |-> <<LineHome>>],
   [folder |-> <<"Work">>, paragraphs |-> <<LineWork>>],
   [folder |-> <<"Home">>, paragraphs |-> <<LineBoth>>],
   [folder |-> <<"Archive">>,
    paragraphs |-> <<LineHome, Line("checklist", <<"buy", " ", "#home">>, FALSE, "")>>],
   [folder |-> <<"Home">>,
    paragraphs |-> <<Line("open", <<"later", " ", "#home">>, TRUE, ""),
                     Line("open", <<"synced", " ", "#home">>, FALSE, "^a1")>>],
   [folder |-> <<"Work">>,
    paragraphs |-> <<Line("open", <<"synced", " ", "#home">>, FALSE, "^a1"),
                     Line("done", <<"done", " ", "#home">>, FALSE, "")>>]}
MaxNotes == 2
NoteLists == UNION {[1..n -> NotePool] : n \in 0..MaxNotes}

TagInputs ==
  {[fn |-> "tags",
    config |-> Merge(BaseConfig, c),
    world |-> [BaseWorld EXCEPT !.useDemoData = d, !.notes = ns]] :
     c \in [ignoreItemsWithTerms : {<<>>, <<"#home">>, <<"#work">>,
                                    <<"#work", ",", " ", "#next">>},
            maxItemsToShowInSection : {1, 2}, ignoreChecklistItems : BOOLEAN,
            excludedFolders : {<<>>, <<"Archive">>},
            tagsToShow : {<<"#home">>, <<"#home", ",", "#work">>},
            hiddenTagSections : {<<>>, <<<<"#work">>>>}],
     d \in BOOLEAN, ns \in NoteLists}

\* the folder of a project note: b.md lies in CCC Areas/Staff, the others in Home
ProjectFolder(filename) ==
  IF filename = "b.md" THEN <<"CCC", "Areas", "/", "Staff">> ELSE <<"Home">>

\* a record of the project list
ProjectRecord(filename, isCompleted, isPaused, noteFound) ==
  [filename |-> filename, title |-> filename, folder |-> ProjectFolder(filename),
   isCompleted |-> isCompleted, isPaused |-> isPaused, noteFound |-> noteFound]
ProjectPool ==
  {Merge(ProjectRecord("a.md", FALSE, FALSE, TRUE), [nextReviewDays |-> 0]),
   Merge(ProjectRecord("b.md", FALSE, FALSE, TRUE), [nextReviewDays |-> -2]),
   Merge(ProjectRecord("c.md", FALSE, FALSE, TRUE), [nextReviewDays |-> 1]),
   Merge(ProjectRecord("d.md", TRUE, FALSE, TRUE), [nextReviewDays |-> -1]),
   Merge(ProjectRecord("e.md", FALSE, TRUE, TRUE), [nextReviewDays |-> -1]),
   Merge(ProjectRecord("g.md", FALSE, FALSE, FALSE), [nextReviewDays |-> -1]),
   ProjectRecord("f.md", FALSE, FALSE, TRUE)}
MaxProjects == 3
ProjectLists == UNION {[1..n -> ProjectPool] : n \in 0..MaxProjects}

\* the perspectives of the project inputs: "Work" is active and shows the
\* folders that contain its included term
ProjectPerspectives(includedFolders) ==
  << [name |-> Dash, isModified |-> FALSE, dashboardSettings |-> EmptySettings],
     [name |-> NameWork, isModified |-> FALSE,
      dashboardSettings |-> [includedFolders |-> includedFolders, excludedFolders |-> <<>>]] >>

ProjectInputs ==
  {[fn |-> "projects",
    config |-> Merge(BaseConfig, [maxItemsToShowInSection |-> m,
                                  activePerspectiveName |-> NameWork]),
    perspectiveSettings |-> ProjectPerspectives(inc),
    world |-> [BaseWorld EXCEPT !.useDemoData = d, !.projects = ps, !.fails = f]] :
     m \in {0, 1, 2}, d \in BOOLEAN, ps \in ProjectLists,
     inc \in {<<"Home">>}, f \in {{}, {"getNextProjectsToReview"}}}

InitBuilders ==
  /\ InitCache /\ InitPersp
  /\ fnArgs \in PeriodInputs \cup TagInputs \cup ProjectInputs
  /\ fnResult = NoResult

\* the call of one builder, whose Sections (or null) are kept as the result
Built(inputs, builder, sections) ==
  /\ ~fnResult.done
  /\ fnArgs.fn = inputs
  /\ fnResult' = [done |-> TRUE, value |-> [fn |-> builder, sections |-> sections]]
  /\ UNCHANGED <<fnArgs, cacheVars, perspVars>>

BuildTimeBlock ==
  Built("periods", "getTimeBlockSectionData", <<getTimeBlockSectionData(fnArgs.config, fnArgs.world)>>)
BuildToday ==
  Built("periods", "getTodaySectionData", getTodaySectionData(fnArgs.config, fnArgs.world))
BuildYesterday ==
  Built("periods", "getYesterdaySectionData", getYesterdaySectionData(fnArgs.config, fnArgs.world))
BuildTomorrow ==
  Built("periods", "getTomorrowSectionData", getTomorrowSectionData(fnArgs.config, fnArgs.world))
BuildThisWeek ==
  Built("periods", "getThisWeekSectionData", getThisWeekSectionData(fnArgs.config, fnArgs.world))
BuildThisMonth ==
  Built("periods", "getThisMonthSectionData", getThisMonthSectionData(fnArgs.config, fnArgs.world))
BuildThisQuarter ==
  Built("periods", "getThisQuarterSectionData", getThisQuarterSectionData(fnArgs.config, fnArgs.world))
BuildOverdue ==
  Built("periods", "getOverdueSectionData", <<getOverdueSectionData(fnArgs.config, fnArgs.world)>>)
BuildPriority ==
  Built("periods", "getPrioritySectionData", <<getPrioritySectionData(fnArgs.config, fnArgs.world)>>)
BuildTagged ==
  Built("tags", "getTaggedSections", getTaggedSections(fnArgs.config, fnArgs.world))
BuildProject ==
  Built("projects", "getProjectSectionData", <<getProjectSectionData(fnArgs.config, fnArgs.world)>>)

NextBuilders ==
  \/ BuildTimeBlock \/ BuildToday \/ BuildYesterday \/ BuildTomorrow
  \/ BuildThisWeek \/ BuildThisMonth \/ BuildThisQuarter
  \/ BuildOverdue \/ BuildPriority \/ BuildTagged \/ BuildProject

SpecBuilders == InitBuilders /\ [][NextBuilders]_vars

-----------------------------------------------------------------------------
(* Claims about the project cache *)

Range(s) == {s[i] : i \in DOMAIN s}
MaxAgeMs == 1000 * 60 * 60 * maxAgeAllProjectsListInHours
OnDisk(p) == [p EXCEPT !.note = FALSE]

C1_WitnessFresh ==
  \E t \in Tasks :
    /\ pc[t] = "ga_ret" /\ loc[t].startExists /\ loc[t].startAge = MaxAgeMs
    /\ loc[t].projectInstances # <<>>

\* C2: updateProjectsListAfterChange(filename, false, config) on a fresh cache
\* holding a record for filename leaves a persisted list of the same length,
\* whose records for every other filename are the ones that were there before.
C2_UpdateOnePrecise ==
  \A t \in Tasks :
    LET l == loc[t]
        other(p) == p.filename # l.filename
    IN (/\ pc[t] = "done" /\ l.op = "updateOne" /\ ~l.simplyDelete
        /\ l.startExists /\ l.startAge <= MaxAgeMs
        /\ \E p \in Range(l.fromList) : p.filename = l.filename)
       => /\ Len(fileRecs) = Len(l.fromList)
          /\ SelectSeq(fileRecs, other) = SelectSeq(l.fromList, other)

\* C3: the persisted list holds at most one record per filename.
C3_OneRecordPerFilename ==
  \A i, j \in DOMAIN fileRecs :
    fileRecs[i].filename = fileRecs[j].filename => i = j

\* C4: a regeneration that cannot persist returns its in-memory records and
\* leaves the generated-at preference alone, and the next
\* getAllProjectsFromList regenerates again.
C4_FailedPersistRetries ==
  [][\A t \in Tasks :
      /\ (pc[t] = "gen_write" /\ pc'[t] # "gen_write" /\ loc'[t].saved = "fail")
           => /\ genPref' = genPref
              /\ loc'[t].projectInstances = loc[t].projectInstances
      /\ (pc[t] = "idle" /\ pc'[t] \in {"ga_ret", "gen_scan"} /\ genFailed)
           => loc'[t].regens = 1]_vars

\* C6: when two updateProjectsListAfterChange calls for different filenames
\* have both written the list, the persisted list holds both updated records.
WrittenBy(t) == OnDisk(loc[t].allProjects[Len(loc[t].allProjects)])
C6_BothUpdatesPersisted ==
  (/\ \A t \in Tasks : /\ pc[t] = "done" /\ loc[t].op = "updateOne"
                       /\ loc[t].haveNote /\ loc[t].saved = "ok"
   /\ loc[1].filename # loc[2].filename)
  => \A t \in Tasks : WrittenBy(t) \in Range(fileRecs)

-----------------------------------------------------------------------------
(* Claims about the perspective store *)

HasName(defs, name) == \E i \in DOMAIN defs : defs[i].name = name

\* C5: when an add and another write sequence have interleaved and both have
\* finished, the stored collection reflects both: the added perspective is
\* there unless the other call deleted that very name, and a deleted
\* perspective is gone unless the other call added that very name.
C5_NoLostUpdate ==
  \A t \in Tasks : \A u \in Tasks \ {t} :
    (ppc[t] = "done" /\ ppc[u] = "done") =>
      /\ (/\ ploc[t].outcome = "added"
          /\ ~(ploc[u].outcome = "deleted" /\ ploc[u].nameToUse = ploc[t].name))
           => HasName(getPerspectiveSettings, ploc[t].name)
      /\ (/\ ploc[t].outcome = "deleted"
          /\ ~(ploc[u].outcome = "added" /\ ploc[u].name = ploc[t].nameToUse))
           => ~HasName(getPerspectiveSettings, ploc[t].nameToUse)

\* C7: the collection always holds exactly one perspective named "-", and a
\* finished deletePerspective("-") has left the collection and the live
\* settings as they were when it began.
C7_ExactlyOneDefault ==
  /\ Cardinality({i \in DOMAIN getPerspectiveSettings :
                    getPerspectiveSettings[i].name = Dash}) = 1
  /\ \A t \in Tasks :
       (ppc[t] = "done" /\ ploc[t].op = "delete" /\ ploc[t].nameIn = Dash)
         => /\ getPerspectiveSettings = ploc[t].startDefs
            /\ settingsDash = ploc[t].startDash

\* deletePerspective("-") has returned, on a collection that has grown
C7_Witness ==
  /\ ppc[1] = "done" /\ ploc[1].op = "delete" /\ ploc[1].nameIn = Dash
  /\ Len(settingsPersp) > Len(perspectiveSettingDefaults)

\* C8: an addNewPerspective whose name is "-", ends in "*" or is already in
\* the collection is rejected: the collection and the active perspective
\* name are what they were when it began.
C8_AddRejected ==
  \A t \in Tasks :
    LET l == ploc[t]
    IN (/\ ppc[t] = "done" /\ l.op = "add" /\ l.outcome # "cancelled"
        /\ (l.name = Dash \/ endsWithStar(l.name) \/ HasName(l.startDefs, l.name)))
       => /\ l.outcome = "rejected"
          /\ getPerspectiveSettings = l.startDefs
          /\ settingsDash["activePerspectiveName"] = l.startDash["activePerspectiveName"]

\* an add of the existing name "Work" was rejected
C8_Witness ==
  /\ ppc[1] = "done" /\ ploc[1].op = "add" /\ ploc[1].outcome = "rejected"
  /\ ploc[1].name = NameWork /\ HasName(settingsPersp, NameWork)

\* C9: every name in the collection is non-empty and does not end with "*".
C9_NamesWellFormed ==
  \A i \in DOMAIN getPerspectiveSettings :
    /\ getPerspectiveSettings[i].name # <<>>
    /\ ~endsWithStar(getPerspectiveSettings[i].name)

\* the keys of the live settings that are session state
TransientKeys == {"activePerspectiveName", "lastChange", "FFlag_DebugPanel", "_logLevel"}

\* C10: after a successful addNewPerspective the collection is the one at the
\* start followed by one definition with the new name (and no other of that
\* name), isModified false and, as its snapshot, the live settings without
\* the transient keys; the stored active perspective name is the new name.
C10_AddAppendsCleanSnapshot ==
  \A t \in Tasks :
    LET l == ploc[t]
        n == Len(l.startDefs)
    IN (ppc[t] = "done" /\ l.op = "add" /\ l.outcome = "added")
       => /\ Len(settingsPersp) = n + 1
          /\ SubSeq(settingsPersp, 1, n) = l.startDefs
          /\ settingsPersp[n + 1].name = l.name
          /\ Cardinality({i \in DOMAIN settingsPersp : settingsPersp[i].name = l.name}) = 1
          /\ settingsPersp[n + 1].isModified = FALSE
          /\ DOMAIN settingsPersp[n + 1].dashboardSettings = (DOMAIN l.startDash) \ TransientKeys
          /\ \A k \in DOMAIN settingsPersp[n + 1].dashboardSettings :
               settingsPersp[n + 1].dashboardSettings[k] = l.startDash[k]
          /\ settingsDash["activePerspectiveName"] = l.name

\* "Test" was added after the user had changed a setting
C10_Witness ==
  /\ ppc[1] = "done" /\ ploc[1].op = "add" /\ ploc[1].outcome = "added"
  /\ ploc[1].name = NameTest
  /\ ploc[1].startDash["includedFolders"] = "Projects"

\* C11: when switchToPerspective(name, allDefs) for a name among allDefs has
\* returned, the stored live settings carry every (non-transient) value of
\* that definition's dashboardSettings, and the stored active perspective
\* name is name.
C11_SwitchCopiesSnapshot ==
  \A t \in Tasks :
    LET l == ploc[t]
        i == getPerspectiveNamed(l.name, l.allDefs)
    IN (ppc[t] = "done" /\ l.op = "switchTo" /\ i # 0)
       => /\ settingsDash["activePerspectiveName"] = l.name
          /\ \A k \in (DOMAIN l.allDefs[i].dashboardSettings) \ TransientKeys :
               /\ k \in DOMAIN settingsDash
               /\ settingsDash[k] = l.allDefs[i].dashboardSettings[k]

\* a name without its trailing "*", if it has one
WithoutStar(name) == IF endsWithStar(name) THEN SubSeq(name, 1, Len(name) - 1) ELSE name

\* the perspective that is active in the stored live settings
ActiveName == WithoutStar(settingsDash["activePerspectiveName"])

\* C12: a change of a setting made while a non-default perspective of the
\* collection is active leaves that perspective's definition with
\* isModified = TRUE in the stored collection.
C12_ChangeSetsIsModified ==
  [][\A v \in FolderValues :
       (/\ ChangeSetting(v)
        /\ ActiveName # Dash
        /\ HasName(settingsPersp, ActiveName))
       => \E i \in DOMAIN settingsPersp' :
            /\ settingsPersp'[i].name = ActiveName
            /\ settingsPersp'[i].isModified]_vars

\* a perspective is Modified when its definition is flagged, or when the
\* active name carries the star for it
IsModifiedIn(name, defs, dashboardSettings) ==
  \/ \E i \in DOMAIN defs : defs[i].name = name /\ defs[i].isModified
  \/ dashboardSettings["activePerspectiveName"] = Append(name, "*")

\* C13: when updateCurrentPerspectiveDef has saved a Modified, non-default
\* active perspective, its definition has isModified = FALSE and its
\* dashboardSettings are the live settings without the transient keys.
C13_SaveStoresCleanSnapshot ==
  \A t \in Tasks :
    LET l == ploc[t]
    IN (/\ ppc[t] = "done" /\ l.op = "save" /\ l.outcome = "saved"
        /\ l.name # Dash
        /\ IsModifiedIn(l.name, l.startDefs, l.startDash))
       => \E i \in DOMAIN settingsPersp :
            /\ settingsPersp[i].name = l.name
            /\ ~settingsPersp[i].isModified
            /\ DOMAIN settingsPersp[i].dashboardSettings = (DOMAIN settingsDash) \ TransientKeys
            /\ \A k \in (DOMAIN settingsDash) \ TransientKeys :
                 settingsPersp[i].dashboardSettings[k] = settingsDash[k]

\* C14: updateCurrentPerspectiveDef leaves the collection as it was when the
\* active perspective is the default "-" or is not Modified.
C14_SaveIsNoOpWhenUnmodified ==
  \A t \in Tasks :
    LET l == ploc[t]
    IN (/\ ppc[t] = "done" /\ l.op = "save"
        /\ (l.name = Dash \/ ~IsModifiedIn(l.name, l.startDefs, l.startDash)))
       => getPerspectiveSettings = l.startDefs

\* C15: a switch (switchToPerspective's write, or the ComboBox handler) away
\* from a Modified non-default perspective leaves that perspective, if it is
\* still in the collection, Modified.
C15_ModifiedSurvivesSwitch ==
  [][\A i \in DOMAIN settingsPersp :
       LET P == settingsPersp[i].name
       IN (/\ P # Dash
           /\ IsModifiedIn(P, settingsPersp, settingsDash)
           /\ \/ \E t \in Tasks : SwWrite(t)
              \/ \E n \in SelectorNames : HandlePerspectiveChange(n)
           /\ WithoutStar(settingsDash'["activePerspectiveName"]) # P
           /\ HasName(settingsPersp', P))
          => IsModifiedIn(P, settingsPersp', settingsDash')]_vars

\* C16: when deletePerspective has removed a perspective, the stored active
\* perspective name (without its star) names a perspective of the collection.
C16_ActiveNameSurvivesDelete ==
  \A t \in Tasks :
    (ppc[t] = "done" /\ ploc[t].op = "delete" /\ ploc[t].outcome = "deleted")
      => HasName(getPerspectiveSettings, ActiveName)

\* C17: the list of all display names has one entry per definition: "-"
\* first and never starred, and for every other definition its name, with a
\* trailing "*" exactly when its isModified is TRUE.
C17_DisplayList ==
  (fnResult.done /\ fnArgs.fn = "list" /\ fnArgs.includeDefaultOption) =>
    LET allDefs == fnArgs.allDefs
        out == fnResult.value
        named == {i \in DOMAIN allDefs : allDefs[i].name # Dash}
    IN /\ Len(out) = Len(allDefs)
       /\ out[1] = Dash
       /\ \A j \in 2..Len(out) :
            \E i \in named :
              out[j] = IF allDefs[i].isModified
                       THEN Append(allDefs[i].name, "*") ELSE allDefs[i].name
       /\ \A i \in named :
            \E j \in 2..Len(out) :
              out[j] = IF allDefs[i].isModified
                       THEN Append(allDefs[i].name, "*") ELSE allDefs[i].name

\* C18: when switchToPerspective has returned true, the dashboardSettings
\* object sent to the window is a dashboard settings object (not the plugin
\* settings object that wraps it as a string) and its activePerspectiveName
\* is the stored one.
C18_ViewAgreesWithStore ==
  \A t \in Tasks :
    (ppc[t] = "done" /\ ploc[t].op = "switchTo" /\ ploc[t].outcome = "switched")
      => /\ ~pluginData.dashboardSettings.wrapped
         /\ pluginData.dashboardSettings.settings["activePerspectiveName"]
              = settingsDash["activePerspectiveName"]

\* C19: when the active perspective has both included and excluded folder
\* terms, every (non-special, non-root) folder that contains an included
\* term and an excluded term is among the allowed folders.
C19_IncludeBeatsExclude ==
  (fnResult.done /\ fnArgs.fn = "allowedFolders") =>
    LET i == getActivePerspectiveDef(fnArgs.dashboardSettings, fnArgs.perspectiveSettings)
        def == fnArgs.perspectiveSettings[i]
        inc == stringListOrArrayToArray(SettingOrEmpty(def.dashboardSettings, "includedFolders"), ",")
        exc == stringListOrArrayToArray(SettingOrEmpty(def.dashboardSettings, "excludedFolders"), ",")
    IN (i # 0 /\ Len(inc) > 0 /\ Len(exc) > 0) =>
         \A k \in DOMAIN fnArgs.folders :
           LET folder == fnArgs.folders[k]
           IN (/\ folder # Root /\ ~StartsWith(folder, <<"@">>)
               /\ \E a \in DOMAIN inc : inc[a] # Root /\ Includes(TerminateWithSlash(folder), inc[a])
               /\ \E b \in DOMAIN exc : exc[b] # Root /\ Includes(TerminateWithSlash(folder), exc[b]))
              => \E o \in DOMAIN fnResult.value : fnResult.value[o] = folder

\* C20: every call of getSomeSectionsData runs the today builder, and the
\* tag builder when there are tags to show, whatever section codes were
\* asked for.
C20_TodayAndTagsAlwaysRun ==
  (fnResult.done /\ fnArgs.fn = "getSomeSectionsData") =>
    /\ \E i \in DOMAIN fnResult.value : fnResult.value[i] = "getTodaySectionData"
    /\ fnArgs.config.tagsToShow # <<>> =>
         \E i \in DOMAIN fnResult.value : fnResult.value[i] = "getTaggedSections"

-----------------------------------------------------------------------------
(* Claims about the aggregator and the section builders *)

\* the section code a builder gives to its sections
CodeOf(builder) ==
  CASE builder = "getTimeBlockSectionData" -> "TB"
    [] builder = "getTodaySectionData" -> "DT"
    [] builder = "getYesterdaySectionData" -> "DY"
    [] builder = "getTomorrowSectionData" -> "DO"
    [] builder = "getThisWeekSectionData" -> "W"
    [] builder = "getThisMonthSectionData" -> "M"
    [] builder = "getThisQuarterSectionData" -> "Q"
    [] builder = "getProjectSectionData" -> "PROJ"
    [] builder = "getTaggedSectionData" -> "TAG"
    [] builder = "getOverdueSectionData" -> "OVERDUE"
    [] builder = "getPrioritySectionData" -> "PRIORITY"

PartialRefreshDone == fnResult.done /\ fnResult.value.fn = "getSomeSectionsData"
FullRefreshDone == fnResult.done /\ fnResult.value.fn = "getAllSectionsData"

C22_NoNullSections ==
  fnResult.done =>
    \A i \in DOMAIN fnResult.value.sections : fnResult.value.sections[i] # null

\* the same refresh with no builder failing
RefreshWithoutFailure ==
  LET world == [fnArgs.world EXCEPT !.fails = {}]
  IN IF fnResult.value.fn = "getSomeSectionsData"
     THEN SomeSectionsData(fnArgs.sectionCodesToGet, fnArgs.config, world)
     ELSE getAllSectionsData(fnResult.value.forceLoadAll, fnArgs.sectionCodesToGet,
                             fnArgs.config, world)

\* C23: when one builder fails, the refresh still returns every Section that
\* the other builders produce.
C23_FailureIsContained ==
  fnResult.done =>
    \A i \in DOMAIN RefreshWithoutFailure :
      (\A b \in fnArgs.world.fails : RefreshWithoutFailure[i].sectionCode # CodeOf(b))
        => \E j \in DOMAIN fnResult.value.sections :
             fnResult.value.sections[j] = RefreshWithoutFailure[i]

\* C24: every Section returned comes from a builder whose own show setting
\* (the showSettingName of the Section) is true.
C24_OwnShowFlagGatesBuilder ==
  fnResult.done =>
    \A i \in DOMAIN fnResult.value.sections :
      LET section == fnResult.value.sections[i]
      IN (section # null /\ fnResult.value.fn = "getSomeSectionsData") =>
           IF section.sectionCode = "TAG"
           THEN ShowTag(fnArgs.config, [sectionName |-> section.name])
           ELSE fnArgs.config[section.showSettingName]

BuilderDone(builder) == fnResult.done /\ fnResult.value.fn = builder

\* the lines the tag builder keeps for a tag before it looks at
\* ignoreItemsWithTerms: open lines with the tag, outside excluded folders,
\* not scheduled into the future
CandidateLines(sectionName) ==
  LET config == [fnArgs.config EXCEPT !.ignoreItemsWithTerms = <<>>]
      NotFuture(p) == ~p.future
  IN SelectSeq(TagParasOfNotes(config,
                 findNotesMatchingHashtagOrMention(fnArgs.world, sectionName), sectionName),
               NotFuture)

\* C25: with tag T as the ignoreItemsWithTerms term, the open lines with T
\* still appear in T's own Section, and no line with T is in the Section of
\* another tag.
C25_TagDoesNotExcludeItself ==
  (BuilderDone("getTaggedSections") /\ ~fnArgs.world.useDemoData) =>
    \A i \in DOMAIN fnResult.value.sections :
      LET section == fnResult.value.sections[i]
      IN IF section.name = fnArgs.config.ignoreItemsWithTerms
         THEN CandidateLines(section.name) # <<>> => section.sectionItems # <<>>
         ELSE \A k \in DOMAIN section.sectionItems :
                \/ fnArgs.config.ignoreItemsWithTerms = <<>>
                \/ ~Includes(section.sectionItems[k].para.content,
                             fnArgs.config.ignoreItemsWithTerms)

\* the items of the first Section of the today builder, built from real data
TodayItems == fnResult.value.sections[1].sectionItems
TodayBuilt ==
  /\ BuilderDone("getTodaySectionData")
  /\ ~fnArgs.world.useDemoData
  /\ fnArgs.world.fails = {}

\* the earlier items that have children at the indent level above item i
ParentsAbove(i) ==
  {j \in 1..(i - 1) : /\ TodayItems[j].para.hasChild
                      /\ TodayItems[j].para.indentLevel = TodayItems[i].para.indentLevel - 1}

\* the parentID of item i is the ID of the last of ParentsAbove(i)
LinkedToLastParent(i) ==
  \E j \in ParentsAbove(i) :
    /\ \A k \in ParentsAbove(i) : k <= j
    /\ TodayItems[i].parentID = TodayItems[j].ID

PeriodBuilders ==
  {"getTodaySectionData", "getYesterdaySectionData", "getTomorrowSectionData",
   "getThisWeekSectionData", "getThisMonthSectionData", "getThisQuarterSectionData"}

\* C27: a time-period builder returns two Sections (own items, referenced
\* items) when separateSectionForReferencedNotes is true, and one Section
\* with both kinds of item when it is false.
C27_OneOrTwoSections ==
  ( /\ fnResult.done
    /\ fnResult.value.fn \in PeriodBuilders
    /\ ~fnArgs.world.useDemoData ) =>
    LET sections == fnResult.value.sections
        open == fnArgs.world.note.open
        refs == fnArgs.world.note.refs
        Paras(section) == [k \in DOMAIN section.sectionItems |-> section.sectionItems[k].para]
    IN IF fnArgs.config.separateSectionForReferencedNotes
       THEN /\ Len(sections) = 2
            /\ Paras(sections[1]) = open
            /\ Paras(sections[2]) = refs
       ELSE /\ Len(sections) = 1
            /\ Paras(sections[1]) = open \o refs

\* C28: a Section with totalCount has at most totalCount items, and exactly
\* totalCount items when the per-section maximum did not cut the list.
C28_ItemsWithinTotalCount ==
  fnResult.done =>
    \A i \in DOMAIN fnResult.value.sections :
      LET section == fnResult.value.sections[i]
      IN (section # null /\ "totalCount" \in DOMAIN section) =>
           /\ Len(section.sectionItems) <= section.totalCount
           /\ section.totalCount <= fnArgs.config.maxItemsToShowInSection
                => Len(section.sectionItems) = section.totalCount

\* C29: in every Section the item IDs are pairwise distinct and are the
\* Section's ID, "-", and an index that goes up by one from item to item.
C29_ItemIdsSequential ==
  fnResult.done =>
    \A i \in DOMAIN fnResult.value.sections :
      LET section == fnResult.value.sections[i]
      IN section # null =>
           /\ \A k, l \in DOMAIN section.sectionItems :
                k # l => section.sectionItems[k].ID # section.sectionItems[l].ID
           /\ \E base \in 0..(2 * MaxParas + 2) :
                \A k \in DOMAIN section.sectionItems :
                  section.sectionItems[k].ID = section.ID \o <<"-", base + k - 1>>

\* the items of the project Section built from the project list
ProjectItems == fnResult.value.sections[1].sectionItems
ProjectsBuilt ==
  /\ BuilderDone("getProjectSectionData")
  /\ ~fnArgs.world.useDemoData

\* C30: every record in the project-review Section is due (nextReviewDays <= 0),
\* not completed and not paused, and with a maximum N > 0 there are at most N.
C30_ProjectsDueAndLimited ==
  ProjectsBuilt =>
    /\ \A k \in DOMAIN ProjectItems :
         \A i \in DOMAIN fnArgs.world.projects :
           LET p == fnArgs.world.projects[i]
           IN p.filename = ProjectItems[k].project.filename =>
                /\ "nextReviewDays" \in DOMAIN p
                /\ p.nextReviewDays <= 0
                /\ ~p.isCompleted
                /\ ~p.isPaused
    /\ fnArgs.config.maxItemsToShowInSection > 0
         => Len(ProjectItems) <= fnArgs.config.maxItemsToShowInSection

\* three projects, two of them due, and room for one
C30_Witness ==
  /\ ProjectsBuilt
  /\ fnArgs.config.maxItemsToShowInSection = 1
  /\ Len(fnArgs.world.projects) = 3
  /\ fnArgs.world.projects[1].filename = "c.md"
  /\ fnArgs.world.projects[2].filename = "a.md"
  /\ fnArgs.world.projects[3].filename = "b.md"
  /\ Len(ProjectItems) = 1
  /\ ProjectItems[1].project.filename = "a.md"


\* the folders the active perspective of the project inputs allows
AllowedProjectFolders ==
  Range(getAllowedFoldersInCurrentPerspective(fnArgs.config, fnArgs.perspectiveSettings,
                                              DataStoreFolders))

\* C31: every project item of the project-review Section comes from a note in a
\* folder that the active perspective currently allows.
C31_ProjectsInAllowedFolders ==
  ProjectsBuilt =>
    \A k \in DOMAIN ProjectItems :
      ProjectFolder(ProjectItems[k].project.filename) \in AllowedProjectFolders

\* C32: when the review-tracking collaborator fails, the project-review builder
\* returns no Section (null), not a Section with an empty item list.
C32_NoSectionWithoutReviews ==
  (ProjectsBuilt /\ "getNextProjectsToReview" \in fnArgs.world.fails)
    => fnResult.value.sections[1] = null


\* C33: running a section builder never writes to a store: no step of the
\* project-review builder changes the persisted project list, its
\* generated-at marker or the persisted perspective collection.
C33_RefreshWritesNoStore ==
  [][loc[1].op = "projectSection"
       => UNCHANGED <<fileExists, fileRecs, genPref, settingsPersp>>]_vars

\* the number of runs of adjacent records of one filename in the project list,
\* and the number of items of that filename in the Section
RunsOf(filename) ==
  LET ps == fnArgs.world.projects
  IN Cardinality({i \in DOMAIN ps :
                    /\ ps[i].filename = filename
                    /\ (i = 1 \/ ps[i - 1].filename # filename)})
ItemsOf(filename) ==
  Cardinality({k \in DOMAIN ProjectItems : ProjectItems[k].project.filename = filename})

\* C34: the selection skips consecutive duplicate filenames: adjacent records
\* of one note give at most one item, so a filename has no more items than it
\* has runs of adjacent records in the processed order.
C34_SkipsConsecutiveDuplicates ==
  ProjectsBuilt =>
    \A i \in DOMAIN fnArgs.world.projects :
      LET filename == fnArgs.world.projects[i].filename
      IN ItemsOf(filename) <= RunsOf(filename)

\* two adjacent records of a.md, then b.md, no limit: one item for each note
C34_Witness ==
  /\ ProjectsBuilt
  /\ fnArgs.world.fails = {}
  /\ fnArgs.config.maxItemsToShowInSection = 0
  /\ Len(fnArgs.world.projects) = 3
  /\ fnArgs.world.projects[1].filename = "a.md"
  /\ fnArgs.world.projects[2].filename = "a.md"
  /\ fnArgs.world.projects[3].filename = "b.md"
  /\ Len(ProjectItems) = 2
  /\ ProjectItems[1].project.filename = "a.md"
  /\ ProjectItems[2].project.filename = "b.md"

\* C35: ignoreItemsWithTerms is a comma-separated list of terms: no tag Section
\* holds a line that contains one of the terms, except the Section of that term.
C35_AnyTermExcludes ==
  (BuilderDone("getTaggedSections") /\ ~fnArgs.world.useDemoData) =>
    LET terms == stringListOrArrayToArray(fnArgs.config.ignoreItemsWithTerms, ",")
    IN \A i \in DOMAIN fnResult.value.sections :
         LET section == fnResult.value.sections[i]
         IN \A k \in DOMAIN section.sectionItems, j \in DOMAIN terms :
              terms[j] # section.name
                => ~Includes(section.sectionItems[k].para.content, terms[j])

\* C36: the overdue and priority builders deduplicate synced copies as the tag
\* builder does: their Sections hold at most one item per synced-line identity.
C36_OverdueAndPriorityDeduplicate ==
  ((BuilderDone("getOverdueSectionData") \/ BuilderDone("getPrioritySectionData"))
     /\ ~fnArgs.world.useDemoData) =>
    LET items == fnResult.value.sections[1].sectionItems
    IN \A k, m \in DOMAIN items :
         (items[k].para.blockId # "" /\ items[k].para.blockId = items[m].para.blockId)
           => k = m

\* the tag builder does so: at most one item per synced-line identity
TagSectionsDeduplicate ==
  (BuilderDone("getTaggedSections") /\ ~fnArgs.world.useDemoData) =>
    \A i \in DOMAIN fnResult.value.sections :
      LET items == fnResult.value.sections[i].sectionItems
      IN \A k, m \in DOMAIN items :
           (items[k].para.blockId # "" /\ items[k].para.blockId = items[m].para.blockId)
             => k = m

\* the entries of a returned folder list that stand for the root folder: '/',
\* or the '' that is left of '/' when its trailing slash is cut off
IsRootEntry(folder) == folder = Root \/ folder = <<>>

FoldersMatchingDone == fnResult.done /\ fnResult.value.fn = "getFoldersMatching"

\* no returned folder contains an exclusion term (other than '/')
NoExcludedTermReturned ==
  FoldersMatchingDone =>
    \A i \in DOMAIN fnResult.value.folders, j \in DOMAIN fnArgs.exclusions :
      fnArgs.exclusions[j] # Root
        => ~Includes(fnResult.value.folders[i], fnArgs.exclusions[j])

\* C37: getFoldersMatching excludes everything on the exclusions list: no
\* returned folder contains an exclusion term, and the root folder is not
\* returned when "/" is among the exclusions.
C37_ExclusionsExcluded ==
  /\ NoExcludedTermReturned
  /\ (FoldersMatchingDone /\ \E j \in DOMAIN fnArgs.exclusions : fnArgs.exclusions[j] = Root)
       => \A i \in DOMAIN fnResult.value.folders : ~IsRootEntry(fnResult.value.folders[i])

MinusExclusionsDone == fnResult.done /\ fnResult.value.fn = "getFolderListMinusExclusions"

\* the folder equals the excluded folder or lies under it
EqualOrUnder(folder, excluded) ==
  folder = excluded \/ StartsWith(folder, TerminateWithSlash(excluded))

\* the folders of the list that are to stay: not special (when special folders
\* are excluded), not equal to nor under an excluded folder, and not the root
\* when its exclusion is requested
FoldersToStay ==
  LET rootOut == \/ fnArgs.forceExcludeRootFolder
                 \/ \E j \in DOMAIN fnArgs.exclusions : fnArgs.exclusions[j] = Root
      Stays(folder) ==
        /\ fnArgs.excludeSpecialFolders => ~StartsWith(folder, <<"@">>)
        /\ \A j \in DOMAIN fnArgs.exclusions :
             fnArgs.exclusions[j] # Root => ~EqualOrUnder(folder, fnArgs.exclusions[j])
        /\ rootOut => folder # Root
  IN SelectSeq(fnArgs.folders, Stays)

MinusExclusionsExactWithRoot ==
  (MinusExclusionsDone /\ \E i \in DOMAIN fnArgs.folders : fnArgs.folders[i] = Root)
    => fnResult.value.folders = FoldersToStay

\* under SpecAge, the time at which a record was derived from its note
DerivedAt(p) == StartNow + p.ver * TickMs

\* C39: under any sequence of getAll, updateOne and regenerateAll, getAll never
\* returns a record that was derived from the corpus more than the maximum age
\* before the call.
C39_GetAllNeverReturnsOldRecord ==
  \A t \in Tasks :
    (pc[t] = "ga_ret" /\ loc[t].op = "getAll") =>
      \A p \in Range(loc[t].projectInstances) : now - DerivedAt(p) <= MaxAgeMs

\* the same for the lists that no single-record update has written: every
\* record of the list on disk was derived when the list was generated
ListWrittenByGenerate == \A p \in Range(fileRecs) : DerivedAt(p) = genPref
GeneratedListNeverOld ==
  \A t \in Tasks :
    (pc[t] = "ga_ret" /\ loc[t].op = "getAll" /\ loc[t].regens = 0 /\ ListWrittenByGenerate) =>
      \A p \in Range(loc[t].projectInstances) : now - DerivedAt(p) <= MaxAgeMs

\* C40: whenever a named perspective of the collection is active, also when it
\* shows the modification marker, the lookup of the active definition finds
\* that perspective, and the allowed folders are derived from its folder
\* lists (the function does not give up with an empty list).
C40_ActiveDefinitionFound ==
  LET perspectiveSettings == getPerspectiveSettings
      i == getActivePerspectiveDef(settingsDash, perspectiveSettings)
  IN (/\ ActiveName # Dash /\ ActiveName # <<>>
      /\ HasName(perspectiveSettings, ActiveName)) =>
       /\ i # 0
       /\ perspectiveSettings[i].name = ActiveName
       /\ ~AllowedFoldersGivenUp(settingsDash, perspectiveSettings)

\* the same while the active name carries no marker
UnmarkedActiveDefinitionFound ==
  LET perspectiveSettings == getPerspectiveSettings
      i == getActivePerspectiveDef(settingsDash, perspectiveSettings)
  IN (/\ ActiveName # Dash /\ ActiveName # <<>>
      /\ HasName(perspectiveSettings, ActiveName)
      /\ ~endsWithStar(settingsDash["activePerspectiveName"])) =>
       /\ i # 0
       /\ perspectiveSettings[i].name = ActiveName
       /\ ~AllowedFoldersGivenUp(settingsDash, perspectiveSettings)

====
